---- MODULE Spec2Model ----
(***************************************************************************)
(* Hollow watch firmware: the power state machine, the touch handler, the  *)
(* recording session and the BLE connection lifecycle, as one state        *)
(* machine.  The main loop (src/src/main.cpp loop()) is a sequence of      *)
(* handler steps selected by pc; the BLE server callbacks and the physical *)
(* environment (finger, charger, peer) interleave between the steps.       *)
(* Every firmware function is an operator from a record of the firmware's  *)
(* globals to the record after the call, so that a handler that calls      *)
(* several functions is the composition of their operators.                *)
(***************************************************************************)
EXTENDS Integers, Sequences, FiniteSets, TLC

\* ------------------------------------------------------------------ constants
TIMEOUT_DIM_MS == 10000
TIMEOUT_LIGHT_SLEEP_MS == 20000
TIMEOUT_DEEP_SLEEP_MS == 280000
BROWNOUT_THRESHOLD_MV == 3000
SHUTDOWN_THRESHOLD_MV == 2700
\* power_manager.cpp:288: the period of the battery check
BATTERY_CHECK_MS == 10000
TEXT_CHUNK_TIMEOUT_MS == 120
OTA_CHUNK_TIMEOUT_MS == 10000
OTA_RESTART_DELAY_MS == 800
OTA_PROGRESS_INTERVAL_MS == 750
RECORDING_MAX_DURATION_MS == 60000
WAITING_ANSWER_TIMEOUT_MS == 30000
TOUCH_DEBOUNCE_MS == 30
MIN_TOUCH_DURATION_MS == 10
TAP_MAX_DURATION_MS == 500
CHARGE_POLL_MS == 5000
BLE_PARAM_UPDATE_MIN_INTERVAL_MS == 1500
BLE_FAST_ADV_DURATION_MS == 25000
CONNECTION_UNHEALTHY_THRESHOLD_MS == 5000
MAX_NOTIFY_RETRIES == 3
NO_CONN == 65535

\* ------------------------------------------------------------------ clock
\* millis() is kept relative.  The origin of millis() is arbitrary (the
\* boot), and the program only compares differences of clock readings with
\* its thresholds.  So the reading of the clock is the fixed value `millis`
\* and the passing of d ms moves every stored timestamp d ms into the past
\* (Past).  A timestamp older than the largest threshold it is compared
\* with is kept at one value just beyond that threshold; the value 0, which
\* the program uses for "not set", stays 0.
\* Time passes in quanta: a coarse quantum TickMs and, from a coarse
\* boundary, a fine quantum FineMs (a tap lasts one fine quantum); in
\* light sleep, where nothing happens until the deep sleep timeout, the
\* coarse quantum is LongMs.
TickMs == TIMEOUT_DIM_MS
FineMs == TAP_MAX_DURATION_MS \div 5
LongMs == TIMEOUT_DEEP_SLEEP_MS
millis == 8 * TIMEOUT_DEEP_SLEEP_MS

\* uint32_t subtraction, as in `millis() - s_lastActivityMs`.  Every clock
\* value of the model is below 2^31, so a difference that wraps (a < b) is
\* a - b + 2^32 > 2^31: above every threshold of the program, and beyond
\* the checker's integers; it is represented by 2^31 - 1.
Sub32(a, b) == IF a >= b THEN a - b ELSE 2147483647

\* Where the program compares clock readings themselves (`now >= t`), the
\* readings keep their 32 bits.  A uint32_t n is represented by n - 2^31,
\* which keeps the order and fits the checker's integers: U32(n) for n
\* below 2^31, U32Top(k) for 2^32 - k.
U32(n) == n - 2147483647 - 1

U32Top(k) == 2147483647 - (k - 1)

\* uint32_t addition of d < 2^31 to the reading v: it wraps to 0 past 2^32 - 1
U32Add(v, d) ==
    IF v <= 2147483647 - d THEN v + d
    ELSE ((v - 2147483647) + (d - 1)) - 2147483647 - 1

\* Time passes in quanta of QuantumMs, at most MaxTicks of them, from an
\* uptime of one second or from QuantumMs before the clock wraps.
QuantumMs == TEXT_CHUNK_TIMEOUT_MS \div 2
MaxTicks == 6
MaxFragments == 3

StartTimes == {U32(1000), U32Top(QuantumMs)}

\* The largest image size and the longest payload write, in bytes.
MaxOtaSize == 3
MaxOtaChunk == 2

\* What the peer writes to the OTA characteristic, as far as onWrite tells
\* values apart: whether it starts with "BEGIN:", is "ABORT" or is anything
\* else; its length; for "BEGIN:" the size handleBeginMessage parses (0 when
\* the text is no number above 0).  With it, what the Update library does
\* when asked: begin, write, end.
OtaWrites ==
    [prefix : {"BEGIN:", "ABORT", "other"}, len : 0..MaxOtaChunk,
     size : 0..MaxOtaSize, beginOk : BOOLEAN, writeOk : BOOLEAN, endOk : BOOLEAN]

NoWrite == [prefix |-> "other", len |-> 0, size |-> 0, beginOk |-> TRUE,
            writeOk |-> TRUE, endOk |-> TRUE]

\* The timestamp ts after d more ms, compared with thresholds up to horizon.
Past(ts, d, horizon) ==
    IF ts = 0 THEN 0
    ELSE IF millis - (ts - d) > horizon THEN millis - (horizon + 1)
    ELSE ts - d

VARIABLES
    \* power_manager.cpp
    g_powerState, g_wokeFromSleep, s_lastActivityMs, s_lightSleepEnteredMs,
    display,
    \* state.cpp
    currentState, g_bleConnected, g_recordingInProgress, g_sleeping, g_dimmed,
    g_isCharging, g_ignoreTap, g_recordingStartMs, g_waitingStartMs,
    \* audio_i2s.cpp
    s_i2sInstalled, s_i2sRunning, s_micPinsConfigured, g_is_recording,
    s_recordingStartMs,
    \* touch.cpp, ui_answer.cpp
    s_wasTouched, s_touchDownMs, s_pendingTouch, s_touchProcessed,
    g_lastTouchY, g_touchMoved,
    \* ble_core.cpp
    g_connId, g_activeTransfer, s_lastParamUpdateMs, s_bleSleepMode,
    s_fastAdvStartMs, s_fastAdvActive,
    \* the radio: the advertising intervals set in the BLEAdvertising object,
    \* whether it advertises, and when it last received a connection
    \* parameter update request on the current connection (0: none)
    advInterval, advertising, radioParamMs,
    \* battery.cpp
    g_lastChargeCheckMs,
    \* what the last step logged, notified to the peer or asked of the radio
    out,
    \* main loop position, the handlers run in the current iteration
    pc, ran,
    \* environment: the clock's position in the coarse quantum, the peer's
    \* CCCD value, whether the finger that woke the watch is still on the panel
    phase, notifyEnabled, wakeTouch,
    \* ble_core.cpp, bleSendNotifyWithRetry: the error counter and the
    \* timestamp of the last success, the position of a call in the
    \* function, its loop counter, the notify() calls it has made and what
    \* it returned
    s_notifyErrors, s_lastSuccessfulNotifyMs, notifyPc, retry, attempts,
    notifyResult,
    \* main.cpp setup(): its position, esp_reset_reason(),
    \* esp_sleep_get_wakeup_cause(), what the touch interrupt line reads once
    \* the latched interrupt is cleared and a scan cycle has passed (TRUE:
    \* a finger is on the panel); pmu.cpp g_pmuPresent
    bootPc, resetReason, wakeReason, wakeLine, g_pmuPresent,
    \* power_manager.cpp powerUpdate, checkBatteryHealth: the static
    \* lastBatteryCheck, the voltage the check of the current iteration read
    \* from the PMU (-1: none read), whether g_pmu.shutdown() was called
    lastBatteryCheck, battVoltage, pmuShutdown,
    \* ble_text.cpp: the pending message (as far as processPendingText tells
    \* messages apart: "" empty, "TIME" one that starts with "TIME:", "TEXT"
    \* any other) and its timestamp; state.cpp g_lastText; time_sync.cpp
    \* g_haveHostTime; whether processPendingText asked for the wake in
    \* progress
    g_textPending, g_pendingValue, g_pendingReadyAtMs, g_lastText,
    g_haveHostTime, wokeByText,
    \* ble_text.cpp, fragment by fragment and with the 32-bit clock: the
    \* reading of millis(), the pending flag, the fragments appended to
    \* g_pendingValue, g_pendingReadyAtMs; the position of popPendingText and
    \* its local `now`; the fragments written so far, the messages handed to
    \* processPendingText, the time since the last write, the clock ticks
    uptime, qPending, qValue, qReadyAtMs, popPc, popNow, written, handed,
    sinceWrite, ticks,
    \* ble_ota.cpp: its statics; the value the peer wrote in the last step and
    \* what the flash did with it (NoWrite when the last step was no write);
    \* the status messages the last step notified; whether ESP.restart() was
    \* called
    g_otaActive, g_expectedSize, g_receivedSize, g_lastChunkMs,
    g_lastProgressNotifyMs, g_restartPending, g_restartAtMs, otaIn, otaSent,
    restarted,
    \* audio_adpcm.cpp: the encoder state kept between blocks, the block
    \* handed to ima_encode_block last and the bytes it wrote
    ima_pred, ima_index, pcm, adpcmOut,
    \* the samples encoded since the encoder was reset
    encoded,
    \* audio_i2s.cpp:59-60 and the lengths of the audio notifications of a step
    s_consecutiveErrors, s_totalChunksSent, audioNotified,
    \* power_manager.cpp:50-51: the CPU lock exists (is not nullptr), is held
    s_cpuLock, s_cpuLockHeld,
    \* powerUpdate's local idleMs and the value its switch statement read
    pu_idleMs, pu_state,
    \* external power on the VBUS pin, as g_pmu.isVbusIn() reads it
    vbusAttached

fw == <<g_powerState, g_wokeFromSleep, s_lastActivityMs, s_lightSleepEnteredMs,
        display, currentState, g_bleConnected, g_recordingInProgress,
        g_sleeping, g_dimmed, g_isCharging, g_ignoreTap, g_recordingStartMs,
        g_waitingStartMs, s_i2sInstalled, s_i2sRunning, s_micPinsConfigured,
        g_is_recording, s_recordingStartMs, s_wasTouched, s_touchDownMs, s_pendingTouch,
        s_touchProcessed, g_lastTouchY, g_touchMoved, g_connId,
        g_activeTransfer, s_lastParamUpdateMs, s_bleSleepMode,
        s_fastAdvStartMs, s_fastAdvActive, advInterval, advertising,
        radioParamMs, g_lastChargeCheckMs, out>>

nvars == <<s_notifyErrors, s_lastSuccessfulNotifyMs, notifyPc, retry,
           attempts, notifyResult>>

bootVars == <<bootPc, resetReason, wakeReason, wakeLine, g_pmuPresent>>

\* the variables of the functions that are specified on their own
battVars == <<lastBatteryCheck, battVoltage, pmuShutdown>>

textVars == <<g_textPending, g_pendingValue, g_pendingReadyAtMs, g_lastText,
              g_haveHostTime, wokeByText>>

queueVars == <<uptime, qPending, qValue, qReadyAtMs, popPc, popNow, written,
               handed, sinceWrite, ticks>>

otaVars == <<g_otaActive, g_expectedSize, g_receivedSize, g_lastChunkMs,
             g_lastProgressNotifyMs, g_restartPending, g_restartAtMs, otaIn,
             otaSent, restarted>>

adpcmVars == <<ima_pred, ima_index, pcm, adpcmOut, encoded>>

pumpVars == <<s_consecutiveErrors, s_totalChunksSent, audioNotified>>

lockVars == <<s_cpuLock, s_cpuLockHeld>>

raceVars == <<pu_idleMs, pu_state>>

chargerVars == <<vbusAttached>>

side == <<bootVars, battVars, textVars, queueVars, otaVars, adpcmVars,
         pumpVars,
         lockVars,
         raceVars,
         chargerVars>>

vars == <<fw, pc, ran, phase, notifyEnabled, wakeTouch, nvars, side>>

\* The firmware's globals as one record (the argument of every function).
Cur == [
    g_powerState |-> g_powerState, g_wokeFromSleep |-> g_wokeFromSleep,
    s_lastActivityMs |-> s_lastActivityMs,
    s_lightSleepEnteredMs |-> s_lightSleepEnteredMs, display |-> display,
    currentState |-> currentState, g_bleConnected |-> g_bleConnected,
    g_recordingInProgress |-> g_recordingInProgress,
    g_sleeping |-> g_sleeping, g_dimmed |-> g_dimmed,
    g_isCharging |-> g_isCharging, g_ignoreTap |-> g_ignoreTap,
    g_recordingStartMs |-> g_recordingStartMs,
    g_waitingStartMs |-> g_waitingStartMs,
    s_i2sInstalled |-> s_i2sInstalled, s_i2sRunning |-> s_i2sRunning,
    s_micPinsConfigured |-> s_micPinsConfigured,
    g_is_recording |-> g_is_recording,
    s_recordingStartMs |-> s_recordingStartMs,
    s_wasTouched |-> s_wasTouched, s_touchDownMs |-> s_touchDownMs,
    s_pendingTouch |-> s_pendingTouch, s_touchProcessed |-> s_touchProcessed,
    g_lastTouchY |-> g_lastTouchY, g_touchMoved |-> g_touchMoved,
    g_connId |-> g_connId, g_activeTransfer |-> g_activeTransfer,
    s_lastParamUpdateMs |-> s_lastParamUpdateMs,
    s_bleSleepMode |-> s_bleSleepMode,
    s_fastAdvStartMs |-> s_fastAdvStartMs, s_fastAdvActive |-> s_fastAdvActive,
    advInterval |-> advInterval, advertising |-> advertising,
    radioParamMs |-> radioParamMs,
    g_lastChargeCheckMs |-> g_lastChargeCheckMs,
    out |-> <<>>]

\* The globals after a step are the record s.
Set(s) ==
    /\ g_powerState' = s.g_powerState
    /\ g_wokeFromSleep' = s.g_wokeFromSleep
    /\ s_lastActivityMs' = s.s_lastActivityMs
    /\ s_lightSleepEnteredMs' = s.s_lightSleepEnteredMs
    /\ display' = s.display
    /\ currentState' = s.currentState
    /\ g_bleConnected' = s.g_bleConnected
    /\ g_recordingInProgress' = s.g_recordingInProgress
    /\ g_sleeping' = s.g_sleeping
    /\ g_dimmed' = s.g_dimmed
    /\ g_isCharging' = s.g_isCharging
    /\ g_ignoreTap' = s.g_ignoreTap
    /\ g_recordingStartMs' = s.g_recordingStartMs
    /\ g_waitingStartMs' = s.g_waitingStartMs
    /\ s_i2sInstalled' = s.s_i2sInstalled
    /\ s_i2sRunning' = s.s_i2sRunning
    /\ s_micPinsConfigured' = s.s_micPinsConfigured
    /\ g_is_recording' = s.g_is_recording
    /\ s_recordingStartMs' = s.s_recordingStartMs
    /\ s_wasTouched' = s.s_wasTouched
    /\ s_touchDownMs' = s.s_touchDownMs
    /\ s_pendingTouch' = s.s_pendingTouch
    /\ s_touchProcessed' = s.s_touchProcessed
    /\ g_lastTouchY' = s.g_lastTouchY
    /\ g_touchMoved' = s.g_touchMoved
    /\ g_connId' = s.g_connId
    /\ g_activeTransfer' = s.g_activeTransfer
    /\ s_lastParamUpdateMs' = s.s_lastParamUpdateMs
    /\ s_bleSleepMode' = s.s_bleSleepMode
    /\ s_fastAdvStartMs' = s.s_fastAdvStartMs
    /\ s_fastAdvActive' = s.s_fastAdvActive
    /\ advInterval' = s.advInterval
    /\ advertising' = s.advertising
    /\ radioParamMs' = s.radioParamMs
    /\ g_lastChargeCheckMs' = s.g_lastChargeCheckMs
    /\ out' = s.out

\* A LOG line, a notification to the peer or a request to the radio.
Emit(s, e) == [s EXCEPT !.out = Append(@, e)]

\* ------------------------------------------------------------------ ble_core.cpp
bleIsConnected(s) == s.g_bleConnected

\* bleNotifyEnabled reads the peer-written CCCD of the audio characteristic
canSendControlMessages(s) == s.g_bleConnected /\ notifyEnabled

\* esp_ble_gap_update_conn_params: the request reaches the radio
updateConnParams(s, request) ==
    Emit([s EXCEPT !.radioParamMs = millis], request)

\* adv->setMinInterval, adv->setMaxInterval
setAdvIntervals(s, intervals) == [s EXCEPT !.advInterval = intervals]

\* BLEDevice::startAdvertising, with the intervals set in the object
startAdvertising(s) == Emit([s EXCEPT !.advertising = TRUE], "radio:adv start")

\* requestConnectionParams without the throttle of ble_core.cpp:127-130
requestConnectionParams_NoThrottle(s, activeTransfer) ==
    IF s.g_connId = NO_CONN \/ ~s.g_bleConnected THEN s
    ELSE IF s.g_activeTransfer = activeTransfer THEN s
    ELSE updateConnParams([s EXCEPT !.g_activeTransfer = activeTransfer,
                                    !.s_lastParamUpdateMs = millis],
                          IF activeTransfer THEN "radio:params ACTIVE"
                          ELSE "radio:params NORMAL")

requestConnectionParams(s, activeTransfer) ==
    IF s.g_connId = NO_CONN \/ ~s.g_bleConnected THEN s
    ELSE IF s.g_activeTransfer = activeTransfer THEN s
    ELSE IF s.s_lastParamUpdateMs > 0
            /\ Sub32(millis, s.s_lastParamUpdateMs) < BLE_PARAM_UPDATE_MIN_INTERVAL_MS
         THEN s
    ELSE updateConnParams([s EXCEPT !.g_activeTransfer = activeTransfer,
                                    !.s_lastParamUpdateMs = millis],
                          IF activeTransfer THEN "radio:params ACTIVE"
                          ELSE "radio:params NORMAL")

bleEnterActiveTransfer(s) == requestConnectionParams(s, TRUE)

bleExitActiveTransfer(s) == requestConnectionParams(s, FALSE)

\* ensureAdvertisingAlive.  The restart of the advertising every 30 s
\* (ble_core.cpp:462-469) leaves the intervals as they are.
ensureAdvertisingAlive(s) ==
    IF s.g_bleConnected THEN s
    ELSE IF s.s_fastAdvActive
            /\ Sub32(millis, s.s_fastAdvStartMs) >= BLE_FAST_ADV_DURATION_MS
    THEN startAdvertising(setAdvIntervals([s EXCEPT !.s_fastAdvActive = FALSE],
                                          "NORMAL"))
    ELSE s

bleEnterSleepMode(s) ==
    IF s.s_bleSleepMode THEN s
    ELSE LET a == [s EXCEPT !.s_bleSleepMode = TRUE, !.s_fastAdvActive = FALSE]
             b == IF a.g_bleConnected /\ a.g_connId # NO_CONN
                  THEN updateConnParams(a, "radio:params SLEEP") ELSE a
         IN  IF ~b.g_bleConnected
             THEN startAdvertising(setAdvIntervals(b, "SLEEP"))
             ELSE b

bleExitSleepMode(s) ==
    IF ~s.s_bleSleepMode THEN s
    ELSE LET a == [s EXCEPT !.s_bleSleepMode = FALSE]
             b == IF a.g_bleConnected /\ a.g_connId # NO_CONN
                  THEN updateConnParams(a, "radio:params NORMAL") ELSE a
         IN  IF ~b.g_bleConnected
             THEN startAdvertising(setAdvIntervals(b, "NORMAL"))
             ELSE b

\* ble_audio.cpp: a notification on the audio characteristic
bleSendControlMessage(s, msg) == Emit(s, msg)

bleSendAudioChunk(s) == Emit(s, "AUDIO")

\* ------------------------------------------------------------------ audio_i2s.cpp
micGpioRelease(s) == [s EXCEPT !.s_micPinsConfigured = FALSE]

\* initMic: ok is whether i2s_driver_install and i2s_set_pin succeed
initMic(s, ok) ==
    IF s.s_i2sInstalled THEN s
    ELSE IF ~ok THEN micGpioRelease(s)
    ELSE [micGpioRelease(s) EXCEPT !.s_i2sInstalled = TRUE, !.s_i2sRunning = FALSE]

\* startMic: hw is what the peripheral does: "ok", or the call that fails
\* ("init_fail", "pin_fail", "start_fail")
startMic(s, hw) ==
    LET a == IF ~s.s_i2sInstalled THEN initMic(s, hw # "init_fail") ELSE s
    IN  IF ~a.s_i2sInstalled THEN Emit(a, "[MIC] ERROR: Failed to init")
        ELSE IF a.s_i2sRunning THEN a
        ELSE IF ~a.s_micPinsConfigured /\ hw = "pin_fail"
             THEN Emit(micGpioRelease(a), "[MIC] ERROR: i2s_set_pin failed")
        ELSE LET b == [a EXCEPT !.s_micPinsConfigured = TRUE,
                                !.s_recordingStartMs = millis]
             IN  IF hw = "start_fail"
                 THEN Emit(b, "[MIC] ERROR: i2s_start failed")
                 ELSE Emit(bleEnterActiveTransfer([b EXCEPT !.s_i2sRunning = TRUE]),
                           "[MIC] Started - recording active")

stopMic(s) ==
    IF ~s.s_i2sRunning THEN s
    ELSE bleExitActiveTransfer(
             Emit(micGpioRelease([s EXCEPT !.s_i2sRunning = FALSE]),
                  "[MIC] Stopped"))

deinitMic(s) ==
    LET a == IF s.s_i2sRunning THEN stopMic(s) ELSE s
    IN  IF ~a.s_i2sInstalled THEN a
        ELSE micGpioRelease([a EXCEPT !.s_i2sInstalled = FALSE])

setRecordingActive(s, active) == [s EXCEPT !.g_is_recording = active]

\* ------------------------------------------------------------------ power_manager.cpp
\* checkBatteryHealth (power_manager.cpp:286-291) and the CPU lock are not
\* part of this model.
displaySetActive(s) == [s EXCEPT !.display = "active"]

displaySetDimmed(s) == [s EXCEPT !.display = "dimmed"]

displaySetOff(s) == [s EXCEPT !.display = "off"]

\* powerMarkActivity that restarts the idle timer and leaves the state alone
powerMarkActivity_TimerOnly(s) ==
    LET a == [s EXCEPT !.s_lastActivityMs = millis]
    IN  IF a.g_powerState = "LIGHT_SLEEP"
        THEN [a EXCEPT !.g_wokeFromSleep = TRUE]
        ELSE a

powerMarkActivity(s) ==
    LET a == [s EXCEPT !.s_lastActivityMs = millis]
    IN  IF a.g_powerState = "LIGHT_SLEEP"
        THEN [a EXCEPT !.g_wokeFromSleep = TRUE]
        ELSE IF a.g_powerState = "DIMMED"
        THEN Emit(displaySetActive(
                      [a EXCEPT !.g_powerState = "ACTIVE", !.g_sleeping = FALSE,
                                !.g_dimmed = FALSE, !.s_lightSleepEnteredMs = 0]),
                  "[POWER] -> ACTIVE (user activity)")
        ELSE a

\* sleep.cpp
markActivity(s) == powerMarkActivity(s)

\* powerForceDeepSleep that leaves the microphone as it is
powerForceDeepSleep_KeepsMic(s) ==
    LET c == Emit([displaySetOff(s) EXCEPT !.advertising = FALSE], "bt:deinit")
    IN  Emit(Emit(Emit(c, "wake pins configured"),
                  "unused pins isolated"), "esp_deep_sleep_start")

\* powerForceDeepSleep: stop the audio, display off, Bluetooth stack
\* disabled and deinitialised, PMU rails, wake sources, pin isolation, and
\* esp_deep_sleep_start, which does not return
powerForceDeepSleep(s) ==
    LET a == IF s.s_i2sRunning THEN stopMic(s) ELSE s
        b == displaySetOff(deinitMic(a))
        c == Emit([b EXCEPT !.advertising = FALSE], "bt:deinit")
    IN  Emit(Emit(Emit(c, "wake pins configured"),
                  "unused pins isolated"), "esp_deep_sleep_start")

\* powerUpdate without the recording guard of power_manager.cpp:294-305
powerUpdate_NoRecordingGuard(s) ==
    LET idle == Sub32(millis, s.s_lastActivityMs)
    IN  CASE s.g_powerState = "ACTIVE" /\ idle >= TIMEOUT_DIM_MS ->
                displaySetDimmed([s EXCEPT !.g_powerState = "DIMMED",
                                           !.g_dimmed = TRUE])
          [] s.g_powerState = "DIMMED" /\ idle >= TIMEOUT_LIGHT_SLEEP_MS
                /\ ~s.g_isCharging ->
                bleEnterSleepMode(displaySetOff(
                    [s EXCEPT !.g_powerState = "LIGHT_SLEEP", !.g_sleeping = TRUE,
                              !.g_dimmed = FALSE,
                              !.s_lightSleepEnteredMs = millis]))
          [] OTHER -> s

\* powerUpdate with a missing `break` after the ACTIVE case: the DIMMED case
\* runs in the same call
powerUpdate_FallsThrough(s) ==
    LET idle == Sub32(millis, s.s_lastActivityMs)
    IN  IF s.g_recordingInProgress THEN s
        ELSE CASE s.g_powerState = "ACTIVE" /\ idle >= TIMEOUT_LIGHT_SLEEP_MS
                    /\ ~s.g_isCharging ->
                    bleEnterSleepMode(displaySetOff(
                        [s EXCEPT !.g_powerState = "LIGHT_SLEEP",
                                  !.g_sleeping = TRUE, !.g_dimmed = FALSE,
                                  !.s_lightSleepEnteredMs = millis]))
               [] s.g_powerState = "ACTIVE" /\ idle >= TIMEOUT_DIM_MS ->
                    displaySetDimmed([s EXCEPT !.g_powerState = "DIMMED",
                                               !.g_dimmed = TRUE])
               [] s.g_powerState = "DIMMED" /\ idle >= TIMEOUT_LIGHT_SLEEP_MS
                    /\ ~s.g_isCharging ->
                    bleEnterSleepMode(displaySetOff(
                        [s EXCEPT !.g_powerState = "LIGHT_SLEEP",
                                  !.g_sleeping = TRUE, !.g_dimmed = FALSE,
                                  !.s_lightSleepEnteredMs = millis]))
               [] OTHER -> s

\* powerUpdate whose LightSleep case does not wait for the deep sleep timeout
powerUpdate_DeepSleepAtOnce(s) ==
    IF s.g_recordingInProgress \/ s.g_powerState # "LIGHT_SLEEP"
    THEN powerUpdate_NoRecordingGuard(
             IF s.g_recordingInProgress
             THEN [s EXCEPT !.s_lastActivityMs = millis] ELSE s)
    ELSE powerForceDeepSleep(Emit(s, "[POWER] -> DEEP_SLEEP (5min timeout)"))

\* powerUpdate that enters light sleep also while the charger is connected
powerUpdate_SleepsWhileCharging(s) ==
    LET idleMs == Sub32(millis, s.s_lastActivityMs)
    IN  IF s.g_recordingInProgress
        THEN IF s.g_powerState # "ACTIVE"
             THEN displaySetActive([s EXCEPT !.g_powerState = "ACTIVE",
                                             !.g_sleeping = FALSE,
                                             !.g_dimmed = FALSE])
             ELSE s
        ELSE CASE s.g_powerState = "ACTIVE" ->
                    IF idleMs >= TIMEOUT_DIM_MS
                    THEN Emit(displaySetDimmed(
                                  [s EXCEPT !.g_powerState = "DIMMED",
                                            !.g_dimmed = TRUE,
                                            !.g_sleeping = FALSE]),
                              "[POWER] -> DIMMED")
                    ELSE s
               [] s.g_powerState = "DIMMED" ->
                    IF idleMs >= TIMEOUT_LIGHT_SLEEP_MS
                    THEN Emit(bleEnterSleepMode(displaySetOff(
                                  [s EXCEPT !.g_powerState = "LIGHT_SLEEP",
                                            !.g_sleeping = TRUE,
                                            !.g_dimmed = FALSE,
                                            !.s_lightSleepEnteredMs = millis])),
                              "[POWER] -> LIGHT_SLEEP")
                    ELSE s
               [] s.g_powerState = "LIGHT_SLEEP" ->
                    IF s.g_isCharging
                    THEN bleExitSleepMode(displaySetDimmed(
                             [s EXCEPT !.g_powerState = "DIMMED",
                                       !.g_dimmed = TRUE,
                                       !.g_sleeping = FALSE]))
                    ELSE IF TIMEOUT_DEEP_SLEEP_MS > 0
                            /\ Sub32(millis, s.s_lightSleepEnteredMs) >= TIMEOUT_DEEP_SLEEP_MS
                    THEN powerForceDeepSleep(Emit(s, "[POWER] -> DEEP_SLEEP (5min timeout)"))
                    ELSE s
               [] OTHER -> s

powerUpdate(s) ==
    LET idleMs == Sub32(millis, s.s_lastActivityMs)
    IN  IF s.g_recordingInProgress
        THEN IF s.g_powerState # "ACTIVE"
             THEN displaySetActive([s EXCEPT !.g_powerState = "ACTIVE",
                                             !.g_sleeping = FALSE,
                                             !.g_dimmed = FALSE])
             ELSE s
        ELSE CASE s.g_powerState = "ACTIVE" ->
                    IF idleMs >= TIMEOUT_DIM_MS
                    THEN Emit(displaySetDimmed(
                                  [s EXCEPT !.g_powerState = "DIMMED",
                                            !.g_dimmed = TRUE,
                                            !.g_sleeping = FALSE]),
                              "[POWER] -> DIMMED")
                    ELSE s
               [] s.g_powerState = "DIMMED" ->
                    IF idleMs >= TIMEOUT_LIGHT_SLEEP_MS /\ ~s.g_isCharging
                    THEN Emit(bleEnterSleepMode(displaySetOff(
                                  [s EXCEPT !.g_powerState = "LIGHT_SLEEP",
                                            !.g_sleeping = TRUE,
                                            !.g_dimmed = FALSE,
                                            !.s_lightSleepEnteredMs = millis])),
                              "[POWER] -> LIGHT_SLEEP")
                    ELSE s
               [] s.g_powerState = "LIGHT_SLEEP" ->
                    IF s.g_isCharging
                    THEN bleExitSleepMode(displaySetDimmed(
                             [s EXCEPT !.g_powerState = "DIMMED",
                                       !.g_dimmed = TRUE,
                                       !.g_sleeping = FALSE]))
                    ELSE IF TIMEOUT_DEEP_SLEEP_MS > 0
                            /\ Sub32(millis, s.s_lightSleepEnteredMs) >= TIMEOUT_DEEP_SLEEP_MS
                    THEN powerForceDeepSleep(Emit(s, "[POWER] -> DEEP_SLEEP (5min timeout)"))
                    ELSE s
               [] OTHER -> s

\* handleWakeFromLightSleep that leaves the application state as it was
handleWakeFromLightSleep_KeepsScreen(s) ==
    LET a == [s EXCEPT !.g_powerState = "ACTIVE", !.g_sleeping = FALSE,
                       !.g_dimmed = FALSE, !.s_lastActivityMs = millis,
                       !.s_lightSleepEnteredMs = 0, !.g_wokeFromSleep = FALSE]
    IN  Emit([bleExitSleepMode(a) EXCEPT !.display = "active",
                                         !.g_ignoreTap = TRUE],
             "[POWER] WAKE")

\* handleWakeFromLightSleep without the call of bleExitSleepMode
handleWakeFromLightSleep_NoBleExit(s) ==
    LET a == [s EXCEPT !.g_powerState = "ACTIVE", !.g_sleeping = FALSE,
                       !.g_dimmed = FALSE, !.s_lastActivityMs = millis,
                       !.s_lightSleepEnteredMs = 0, !.g_wokeFromSleep = FALSE]
    IN  Emit([a EXCEPT !.display = "active", !.currentState = "IDLE",
                       !.g_ignoreTap = TRUE],
             "[POWER] WAKE")

handleWakeFromLightSleep(s) ==
    LET a == [s EXCEPT !.g_powerState = "ACTIVE", !.g_sleeping = FALSE,
                       !.g_dimmed = FALSE, !.s_lastActivityMs = millis,
                       !.s_lightSleepEnteredMs = 0, !.g_wokeFromSleep = FALSE]
        b == [bleExitSleepMode(a) EXCEPT !.display = "active"]
    IN  Emit([b EXCEPT !.currentState = "IDLE", !.g_ignoreTap = TRUE],
             "[POWER] WAKE")

\* ------------------------------------------------------------------ state.cpp
finalizeRecordingTimer(s) ==
    IF s.g_recordingStartMs = 0 THEN s ELSE [s EXCEPT !.g_recordingStartMs = 0]

\* startRecording after its gate `if (!canSendControlMessages()) return;`
startRecordingBody(s, hw) ==
    LET a == setRecordingActive(startMic(markActivity(s), hw), TRUE)
    IN  bleSendControlMessage(
            [a EXCEPT !.g_recordingInProgress = TRUE,
                      !.g_recordingStartMs = millis,
                      !.g_waitingStartMs = 0,
                      !.currentState = "RECORDING"],
            "START_V")

\* startRecording without its gate
startRecording_NoGate(s, hw) == startRecordingBody(s, hw)

\* startRecording: hw is what the microphone does in startMic
startRecording(s, hw) ==
    IF ~canSendControlMessages(s) THEN s ELSE startRecordingBody(s, hw)

stopRecording(s) ==
    LET a == finalizeRecordingTimer(setRecordingActive(
                 [stopMic(markActivity(s)) EXCEPT !.g_recordingInProgress = FALSE],
                 FALSE))
    IN  IF canSendControlMessages(a)
        THEN bleSendControlMessage(
                 [a EXCEPT !.currentState = "WAITING_ANSWER",
                           !.g_waitingStartMs = millis],
                 "END")
        ELSE [a EXCEPT !.currentState = "IDLE", !.g_waitingStartMs = 0]

\* checkWaitingTimeout that lets a wait go on in light sleep
checkWaitingTimeout_AwakeOnly(s) ==
    IF s.currentState # "WAITING_ANSWER" /\ s.currentState # "WAITING_TIME" THEN s
    ELSE IF s.g_waitingStartMs = 0 THEN [s EXCEPT !.g_waitingStartMs = millis]
    ELSE IF Sub32(millis, s.g_waitingStartMs) >= WAITING_ANSWER_TIMEOUT_MS
            /\ s.g_powerState # "LIGHT_SLEEP"
    THEN markActivity([s EXCEPT !.currentState = "IDLE", !.g_waitingStartMs = 0])
    ELSE s

checkWaitingTimeout(s) ==
    IF s.currentState # "WAITING_ANSWER" /\ s.currentState # "WAITING_TIME" THEN s
    ELSE IF s.g_waitingStartMs = 0 THEN [s EXCEPT !.g_waitingStartMs = millis]
    ELSE IF Sub32(millis, s.g_waitingStartMs) >= WAITING_ANSWER_TIMEOUT_MS
    THEN markActivity([s EXCEPT !.currentState = "IDLE", !.g_waitingStartMs = 0])
    ELSE s

\* ------------------------------------------------------------------ audio_i2s.cpp
\* updateRecording: rd is what i2s_read returns: "err", "empty" (no bytes)
\* or "data" (a block of samples, encoded and notified as one chunk).  The
\* counters s_consecutiveErrors and s_totalChunksSent are only logged.
updateRecording(s, rd) ==
    IF ~s.s_i2sRunning \/ ~s.g_is_recording THEN s
    ELSE IF Sub32(millis, s.s_recordingStartMs) > RECORDING_MAX_DURATION_MS
    THEN stopRecording(Emit(s, "[MIC] Max duration reached - auto-stopping"))
    ELSE IF ~bleIsConnected(s)
    THEN stopRecording(Emit(s, "[MIC] BLE disconnected - stopping recording"))
    ELSE IF rd \in {"err", "empty"} THEN s
    ELSE bleSendAudioChunk(s)

\* ------------------------------------------------------------------ battery.cpp
\* updateChargingState: vbusIn is g_pmu.isVbusIn()
updateChargingState(s, vbusIn) ==
    LET a == IF s.g_lastChargeCheckMs = 0
             THEN [s EXCEPT !.g_lastChargeCheckMs = Sub32(millis, CHARGE_POLL_MS)]
             ELSE s
    IN  IF Sub32(millis, a.g_lastChargeCheckMs) < CHARGE_POLL_MS THEN a
        ELSE LET b == [a EXCEPT !.g_lastChargeCheckMs = millis, !.g_isCharging = vbusIn]
             IN  IF b.g_isCharging # a.g_isCharging /\ b.g_isCharging
                 THEN powerMarkActivity(b)
                 ELSE b

\* ------------------------------------------------------------------ touch.cpp
\* handleTouch: intLow is digitalRead(TOUCH_INT_PIN) == LOW, touched is
\* gfx.getTouch(), moved is whether the point is more than 3 px from where
\* the touch started.  The result is the globals and whether the release of
\* a valid tap was detected in IDLE/RECORDING (lines 197-203); the toggle
\* of the recording (lines 204-208) is in the step HandleTouch.
handleTouch(s, intLow, touched, moved) ==
    IF s.g_sleeping
    THEN [s |-> IF intLow THEN [powerMarkActivity(s) EXCEPT !.g_ignoreTap = TRUE]
                ELSE s,
          tap |-> FALSE]
    ELSE
    LET down == touched /\ ~s.s_wasTouched
        a == IF ~down THEN s
             ELSE LET d == [s EXCEPT !.s_touchDownMs = millis,
                                     !.s_pendingTouch = TRUE,
                                     !.s_touchProcessed = FALSE]
                  IN  IF d.g_sleeping
                      THEN [powerMarkActivity(d) EXCEPT !.g_ignoreTap = TRUE,
                                                        !.s_touchProcessed = TRUE]
                      ELSE IF d.g_dimmed
                      THEN [markActivity(d) EXCEPT !.g_ignoreTap = TRUE,
                                                   !.s_touchProcessed = TRUE]
                      ELSE d
        justReleased == ~touched /\ s.s_wasTouched
        b == IF ~justReleased THEN a
             ELSE [a EXCEPT !.s_pendingTouch = FALSE,
                            !.g_ignoreTap =
                                IF @ /\ ~a.g_sleeping /\ ~a.g_dimmed THEN FALSE ELSE @]
        c == [b EXCEPT !.s_wasTouched = touched]
        touchDuration == Sub32(millis, c.s_touchDownMs)
        debounceOk == c.s_pendingTouch /\ touched /\ touchDuration >= TOUCH_DEBOUNCE_MS
        e == IF debounceOk /\ ~c.s_touchProcessed THEN markActivity(c) ELSE c
    IN  IF c.g_dimmed THEN [s |-> c, tap |-> FALSE]
        ELSE IF e.g_ignoreTap
        THEN [s |-> IF ~touched THEN [e EXCEPT !.g_ignoreTap = FALSE] ELSE e,
              tap |-> FALSE]
        ELSE IF e.currentState \in {"WAITING_ANSWER", "WAITING_TIME"}
        THEN [s |-> e, tap |-> FALSE]
        ELSE IF e.currentState = "ANSWER"
        THEN [s |-> IF ~touched
                    THEN [e EXCEPT !.currentState =
                                       IF e.g_lastTouchY >= 0 /\ ~e.g_touchMoved
                                          /\ touchDuration < TAP_MAX_DURATION_MS
                                       THEN "IDLE" ELSE @,
                                   !.g_lastTouchY = -1,
                                   !.g_touchMoved = FALSE]
                    ELSE IF e.g_lastTouchY < 0
                    THEN [e EXCEPT !.g_lastTouchY = 0, !.g_touchMoved = FALSE]
                    ELSE IF moved THEN [e EXCEPT !.g_touchMoved = TRUE]
                    ELSE e,
              tap |-> FALSE]
        ELSE IF e.currentState \in {"IDLE", "RECORDING"}
                /\ justReleased /\ ~e.s_touchProcessed
                /\ touchDuration >= MIN_TOUCH_DURATION_MS
                /\ touchDuration < TAP_MAX_DURATION_MS
        THEN [s |-> [e EXCEPT !.s_touchProcessed = TRUE], tap |-> TRUE]
        ELSE [s |-> e, tap |-> FALSE]

\* ------------------------------------------------------------------ ble_core.cpp
\* ServerCallbacks::onConnect (timeSyncHandleConnected asks the peer for the time)
onConnect(s) ==
    LET a == powerMarkActivity(powerMarkActivity(
                 [s EXCEPT !.g_bleConnected = TRUE, !.g_connId = 0]))
        b == requestConnectionParams(a, FALSE)
    IN  IF canSendControlMessages(b) THEN bleSendControlMessage(b, "REQ_TIME") ELSE b

\* onDisconnect without the block that stops an ongoing recording
onDisconnect_NoTeardown(s) ==
    LET a == Emit([s EXCEPT !.g_bleConnected = FALSE, !.g_connId = NO_CONN,
                            !.g_activeTransfer = FALSE, !.s_lastParamUpdateMs = 0,
                            !.currentState = "IDLE"],
                  "[BLE] disconnected, restarting advertising")
    IN  startAdvertising(IF a.s_fastAdvActive THEN setAdvIntervals(a, "FAST")
                         ELSE a)

\* onDisconnect with the powerMarkActivity call the program has commented out
onDisconnect_MarksActivity(s) ==
    LET a == Emit([s EXCEPT !.g_bleConnected = FALSE, !.g_connId = NO_CONN,
                            !.g_activeTransfer = FALSE, !.s_lastParamUpdateMs = 0],
                  "[BLE] disconnected, restarting advertising")
        b == IF a.g_recordingInProgress
             THEN stopMic(setRecordingActive(finalizeRecordingTimer(
                      [a EXCEPT !.g_recordingInProgress = FALSE]), FALSE))
             ELSE a
        c == powerMarkActivity([b EXCEPT !.currentState = "IDLE"])
    IN  startAdvertising(IF c.s_fastAdvActive THEN setAdvIntervals(c, "FAST")
                         ELSE c)

\* ServerCallbacks::onDisconnect
onDisconnect(s) ==
    LET a == Emit([s EXCEPT !.g_bleConnected = FALSE, !.g_connId = NO_CONN,
                            !.g_activeTransfer = FALSE, !.s_lastParamUpdateMs = 0],
                  "[BLE] disconnected, restarting advertising")
        b == IF a.g_recordingInProgress
             THEN stopMic(setRecordingActive(finalizeRecordingTimer(
                      [a EXCEPT !.g_recordingInProgress = FALSE]), FALSE))
             ELSE a
        c == [b EXCEPT !.currentState = "IDLE"]
    IN  startAdvertising(IF c.s_fastAdvActive THEN setAdvIntervals(c, "FAST")
                         ELSE c)

\* ------------------------------------------------------------------ initial state
\* The state when setup() returns: powerManagerInit, initState, initBLE
\* (fast advertising burst), initMic (which may fail), updateChargingState.
InitLoop ==
    /\ g_powerState = "ACTIVE" /\ g_wokeFromSleep = FALSE
    /\ s_lastActivityMs = millis /\ s_lightSleepEnteredMs = 0
    /\ display = "active"
    /\ currentState = "IDLE" /\ g_bleConnected = FALSE
    /\ g_recordingInProgress = FALSE /\ g_sleeping = FALSE /\ g_dimmed = FALSE
    /\ g_isCharging \in BOOLEAN
    /\ g_ignoreTap = FALSE /\ g_recordingStartMs = 0 /\ g_waitingStartMs = 0
    /\ s_i2sInstalled \in BOOLEAN /\ s_i2sRunning = FALSE
    /\ s_micPinsConfigured = FALSE /\ g_is_recording = FALSE
    /\ s_recordingStartMs = 0
    /\ s_wasTouched = FALSE /\ s_touchDownMs = 0 /\ s_pendingTouch = FALSE
    /\ s_touchProcessed = FALSE /\ g_lastTouchY = -1 /\ g_touchMoved = FALSE
    /\ g_connId = NO_CONN /\ g_activeTransfer = FALSE /\ s_lastParamUpdateMs = 0
    /\ s_bleSleepMode = FALSE
    /\ s_fastAdvStartMs = millis /\ s_fastAdvActive = TRUE
    /\ advInterval = "FAST" /\ advertising = TRUE /\ radioParamMs = 0
    /\ g_lastChargeCheckMs = millis
    /\ out = <<>>
    /\ pc = "top" /\ ran = <<>>
    /\ phase = 0 /\ notifyEnabled = FALSE /\ wakeTouch = FALSE
    /\ s_notifyErrors = 0 /\ s_lastSuccessfulNotifyMs = 0
    /\ notifyPc = "idle" /\ retry = 0 /\ attempts = 0 /\ notifyResult = "none"
    /\ bootPc = "loop" /\ resetReason = "POWERON" /\ wakeReason = "UNDEFINED"
    /\ wakeLine = FALSE
    /\ lastBatteryCheck = millis
    /\ battVoltage = -1 /\ pmuShutdown = FALSE
    /\ g_textPending = FALSE /\ g_pendingValue = "" /\ g_pendingReadyAtMs = 0
    /\ g_lastText = "" /\ g_haveHostTime = FALSE /\ wokeByText = FALSE
    /\ qPending = FALSE /\ qValue = <<>>
    /\ qReadyAtMs = U32(0) /\ popPc = "idle" /\ popNow = U32(0)
    /\ written = <<>> /\ handed = <<>>
    /\ sinceWrite = TEXT_CHUNK_TIMEOUT_MS /\ ticks = 0
    /\ g_otaActive = FALSE /\ g_expectedSize = 0 /\ g_receivedSize = 0
    /\ g_lastChunkMs = 0 /\ g_lastProgressNotifyMs = 0
    /\ g_restartPending = FALSE /\ g_restartAtMs = 0
    /\ otaIn = NoWrite /\ otaSent = <<>> /\ restarted = FALSE
    /\ ima_pred = 0 /\ ima_index = 0 /\ pcm = <<>> /\ adpcmOut = <<>>
    /\ encoded = 0
    /\ s_consecutiveErrors = 0 /\ s_totalChunksSent = 0 /\ audioNotified = <<>>
    /\ s_cpuLock = TRUE /\ s_cpuLockHeld = FALSE
    /\ pu_idleMs = 0 /\ pu_state = "ACTIVE"
    /\ vbusAttached = FALSE

Init == InitLoop /\ g_pmuPresent = TRUE /\ uptime = U32(1000)

Emitted(s, e) == \E i \in DOMAIN s.out : s.out[i] = e

\* The last step logged, notified or requested e.
Logged(e) == \E i \in DOMAIN out : out[i] = e

\* millis() - s_lastActivityMs
idleMs == Sub32(millis, s_lastActivityMs)

\* ------------------------------------------------------------------ main.cpp loop()
\* main.cpp:222-230: the wake handler returns from loop(); otherwise powerUpdate
LoopTop ==
    /\ pc = "top"
    /\ IF g_wokeFromSleep
       THEN /\ Set(handleWakeFromLightSleep(Cur))
            /\ pc' = "top"
            /\ ran' = <<"handleWakeFromLightSleep">>
       ELSE LET s == powerUpdate(Cur)
            IN  /\ Set(s)
                /\ pc' = IF Emitted(s, "esp_deep_sleep_start") THEN "halt" ELSE "touch"
                /\ ran' = <<"powerUpdate">>
    /\ UNCHANGED <<phase, notifyEnabled, wakeTouch>>
    /\ UNCHANGED <<nvars, side>>

\* main.cpp:235 handleTouch().  A tap stops the recording in progress or
\* calls startRecording; when the gate of startRecording (state.cpp:41) is
\* open, its body is the next step, so that the BLE callbacks interleave
\* between the two.  touched is the finger on the panel at this sample:
\* the INT line in sleep, gfx.getTouch() otherwise.  A finger found on the
\* panel in sleep is the wake touch until a sample finds the panel free.
LoopTouch ==
    /\ pc = "touch"
    /\ \E touched \in BOOLEAN,
          moved \in (IF currentState = "ANSWER" THEN BOOLEAN ELSE {FALSE}) :
          LET r == handleTouch(Cur, touched, touched, moved)
          IN  /\ IF r.tap /\ r.s.g_recordingInProgress
                 THEN /\ Set(stopRecording(r.s)) /\ pc' = "rest"
                      /\ ran' = ran \o <<"handleTouch", "stopRecording">>
                 ELSE IF r.tap /\ canSendControlMessages(r.s)
                 THEN /\ Set(r.s) /\ pc' = "startRecording"
                      /\ ran' = Append(ran, "handleTouch")
                 ELSE IF r.tap
                 THEN /\ Set(startRecording(r.s, "ok")) /\ pc' = "rest"
                      /\ ran' = ran \o <<"handleTouch", "startRecording">>
                 ELSE /\ Set(r.s) /\ pc' = "rest"
                      /\ ran' = Append(ran, "handleTouch")
              /\ wakeTouch' = IF g_sleeping THEN touched ELSE wakeTouch /\ touched
    /\ UNCHANGED <<phase, notifyEnabled>>
    /\ UNCHANGED <<nvars, side>>

\* state.cpp:42-52: the body of startRecording, with what the microphone does
LoopStartRecording ==
    /\ pc = "startRecording"
    /\ \E hw \in (IF s_i2sInstalled THEN {"ok", "pin_fail", "start_fail"}
                  ELSE {"ok", "init_fail", "pin_fail", "start_fail"}) :
          Set(startRecordingBody(Cur, hw))
    /\ pc' = "rest"
    /\ ran' = Append(ran, "startRecording")
    /\ UNCHANGED <<phase, notifyEnabled, wakeTouch>>
    /\ UNCHANGED <<nvars, side>>

\* Time passes: d ms later every stored timestamp is d ms older.  The
\* program reads s_recordingStartMs only while the I2S channel runs
\* (audio_i2s.cpp:215,296) and startMic writes it before the channel runs
\* (:181); it reads g_waitingStartMs only in the waiting states
\* (state.cpp:74-83) and stopRecording writes it on entering them (:64).
\* Outside that, their horizon is 0.
Elapse(s, d) ==
    [s EXCEPT
        !.s_lastActivityMs = Past(@, d, TIMEOUT_LIGHT_SLEEP_MS),
        !.s_lightSleepEnteredMs = Past(@, d, TIMEOUT_DEEP_SLEEP_MS),
        !.g_recordingStartMs = Past(@, d, RECORDING_MAX_DURATION_MS + TickMs),
        !.s_recordingStartMs =
            Past(@, d, IF s.s_i2sRunning THEN RECORDING_MAX_DURATION_MS ELSE 0),
        !.g_waitingStartMs =
            Past(@, d, IF s.currentState \in {"WAITING_ANSWER", "WAITING_TIME"}
                       THEN WAITING_ANSWER_TIMEOUT_MS ELSE 0),
        !.s_touchDownMs = Past(@, d, TAP_MAX_DURATION_MS),
        !.s_lastParamUpdateMs = Past(@, d, BLE_PARAM_UPDATE_MIN_INTERVAL_MS),
        !.radioParamMs = Past(@, d, BLE_PARAM_UPDATE_MIN_INTERVAL_MS),
        !.s_fastAdvStartMs = Past(@, d, BLE_FAST_ADV_DURATION_MS),
        !.g_lastChargeCheckMs = Past(@, d, CHARGE_POLL_MS)]

\* The pacing delay ends on the clock's lattice: a coarse boundary, or one
\* fine quantum after it.  The iterations of a light sleep in which no
\* timeout of the application is pending are taken together.
Quanta(s) ==
    LET coarse == IF /\ s.g_powerState = "LIGHT_SLEEP"
                     /\ s.currentState \notin {"WAITING_ANSWER", "WAITING_TIME"}
                  THEN LongMs ELSE TickMs
    IN  IF phase = 0 THEN {0, FineMs, coarse} ELSE {0, coarse - FineMs}

\* main.cpp:242-254: ensureAdvertisingAlive, checkWaitingTimeout, then
\* updateRecording while a recording is in progress
loopRecording(s, rd) ==
    LET a == checkWaitingTimeout(ensureAdvertisingAlive(s))
    IN  IF a.g_recordingInProgress THEN updateRecording(a, rd) ELSE a

\* main.cpp:259-294: the UI section is skipped in light sleep; its drawing
\* and time request code changes no state of this model
loopUI(s, vbusIn) ==
    IF s.g_powerState # "LIGHT_SLEEP" THEN updateChargingState(s, vbusIn) ELSE s

\* main.cpp:240-335: the rest of loop() after the touch handler, and the
\* frame pacing delay during which time passes.  processPendingText and
\* otaLoop run first; the state they work on is not part of this model.
LoopRest ==
    /\ pc = "rest"
    /\ \E rd \in (IF g_recordingInProgress /\ s_i2sRunning
                  THEN {"err", "empty", "data"} ELSE {"empty"}),
          vbusIn \in BOOLEAN :
          LET s == loopUI(loopRecording(Cur, rd), vbusIn)
          IN  \E d \in Quanta(s) :
                 /\ Set(Elapse(s, d))
                 /\ phase' = (phase + d) % TickMs
    /\ pc' = "top"
    /\ ran' = ran \o <<"processPendingText", "otaLoop",
                       "ensureAdvertisingAlive", "checkWaitingTimeout">>
                   \o (IF g_recordingInProgress
                       THEN <<"updateRecording">> ELSE <<>>)
    /\ UNCHANGED <<notifyEnabled, wakeTouch>>
    /\ UNCHANGED <<nvars, side>>

\* ------------------------------------------------------------------ BLE callbacks
\* a peer connects to the advertising device; the radio stops advertising
OnConnect ==
    /\ ~g_bleConnected /\ advertising /\ pc # "halt"
    /\ Set([onConnect(Cur) EXCEPT !.advertising = FALSE])
    /\ UNCHANGED <<pc, ran, phase, notifyEnabled, wakeTouch>>
    /\ UNCHANGED <<nvars, side>>

\* the connection ends, and with it the radio's record of its parameters
OnDisconnect ==
    /\ g_bleConnected /\ pc # "halt"
    /\ Set([onDisconnect(Cur) EXCEPT !.radioParamMs = 0])
    /\ UNCHANGED <<pc, ran, phase, notifyEnabled, wakeTouch>>
    /\ UNCHANGED <<nvars, side>>

\* the peer writes the CCCD (0x2902) of the audio characteristic
PeerSubscribe ==
    /\ g_bleConnected /\ pc # "halt"
    /\ notifyEnabled' = ~notifyEnabled
    /\ Set(Cur)
    /\ UNCHANGED <<pc, ran, phase, wakeTouch>>
    /\ UNCHANGED <<nvars, side>>

Next ==
    \/ LoopTop \/ LoopTouch \/ LoopStartRecording \/ LoopRest
    \/ OnConnect \/ OnDisconnect \/ PeerSubscribe

Spec == Init /\ [][Next]_vars

\* ------------------------------------------------------------------ ble_core.cpp
\* bleSendNotifyWithRetry, which no code of the firmware calls, as a process
\* of its own: a call goes through the steps of the function while the
\* server callbacks, which run in the BLE task, set and clear
\* g_bleConnected between them.  n is the record of what the function
\* reads and writes.
NCur == [g_bleConnected |-> g_bleConnected, s_notifyErrors |-> s_notifyErrors,
         s_lastSuccessfulNotifyMs |-> s_lastSuccessfulNotifyMs,
         notifyPc |-> notifyPc, retry |-> retry, attempts |-> attempts,
         notifyResult |-> notifyResult]

NSet(n) ==
    /\ s_notifyErrors' = n.s_notifyErrors
    /\ s_lastSuccessfulNotifyMs' = n.s_lastSuccessfulNotifyMs
    /\ notifyPc' = n.notifyPc /\ retry' = n.retry /\ attempts' = n.attempts
    /\ notifyResult' = n.notifyResult

\* everything bleSendNotifyWithRetry and the connection flag leave alone
notifyFrame ==
    <<g_powerState, g_wokeFromSleep, s_lastActivityMs, s_lightSleepEnteredMs,
      display, currentState, g_recordingInProgress, g_sleeping, g_dimmed,
      g_isCharging, g_ignoreTap, g_recordingStartMs, g_waitingStartMs,
      s_i2sInstalled, s_i2sRunning, s_micPinsConfigured, g_is_recording,
      s_recordingStartMs, s_wasTouched, s_touchDownMs, s_pendingTouch,
      s_touchProcessed, g_lastTouchY, g_touchMoved, g_connId,
      g_activeTransfer, s_lastParamUpdateMs, s_bleSleepMode,
      s_fastAdvStartMs, s_fastAdvActive, advInterval, advertising,
      radioParamMs, g_lastChargeCheckMs, out, pc, ran, phase, notifyEnabled,
      wakeTouch, side>>

\* ble_core.cpp:542-547: the guard, and the start of the loop
notifyEnter(n, characteristic) ==
    IF ~characteristic \/ ~n.g_bleConnected
    THEN [n EXCEPT !.notifyResult = "false", !.attempts = 0, !.notifyPc = "idle"]
    ELSE [n EXCEPT !.notifyResult = "none", !.attempts = 0, !.retry = 0,
                   !.notifyPc = "notify"]

\* ble_core.cpp:548-549: setValue and notify
notifyAttempt(n) == [n EXCEPT !.attempts = @ + 1, !.notifyPc = "check"]

\* ble_core.cpp:564-566: the loop has ended
notifyExhausted(n) ==
    [n EXCEPT !.s_notifyErrors = @ + 1, !.notifyResult = "false",
              !.notifyPc = "idle"]

\* the check after notify that counts an error for every attempt that
\* finds the connection dropped
notifyCheck_CountsEveryAttempt(n) ==
    IF n.g_bleConnected
    THEN [n EXCEPT !.s_lastSuccessfulNotifyMs = millis, !.notifyResult = "true",
                   !.notifyPc = "idle"]
    ELSE IF n.retry < MAX_NOTIFY_RETRIES - 1
    THEN [n EXCEPT !.s_notifyErrors = @ + 1, !.notifyPc = "delay"]
    ELSE notifyExhausted([n EXCEPT !.retry = @ + 1])

\* ble_core.cpp:551-562: the check after notify; after the last attempt
\* the loop counter reaches MAX_NOTIFY_RETRIES and the loop ends
notifyCheck(n) ==
    IF n.g_bleConnected
    THEN [n EXCEPT !.s_lastSuccessfulNotifyMs = millis, !.notifyResult = "true",
                   !.notifyPc = "idle"]
    ELSE IF n.retry < MAX_NOTIFY_RETRIES - 1
    THEN [n EXCEPT !.notifyPc = "delay"]
    ELSE notifyExhausted([n EXCEPT !.retry = @ + 1])

\* ble_core.cpp:560 and 547: delay(10), retry++ and the loop condition
notifyDelay(n) ==
    LET a == [n EXCEPT !.retry = @ + 1,
                       !.s_lastSuccessfulNotifyMs =
                           Past(@, 10, CONNECTION_UNHEALTHY_THRESHOLD_MS)]
    IN  IF a.retry < MAX_NOTIFY_RETRIES THEN [a EXCEPT !.notifyPc = "notify"]
        ELSE notifyExhausted(a)

NotifyCall ==
    /\ notifyPc = "idle"
    /\ \E characteristic \in BOOLEAN : NSet(notifyEnter(NCur, characteristic))
    /\ UNCHANGED <<g_bleConnected, notifyFrame>>

NotifyAttempt ==
    /\ notifyPc = "notify"
    /\ NSet(notifyAttempt(NCur))
    /\ UNCHANGED <<g_bleConnected, notifyFrame>>

NotifyCheck ==
    /\ notifyPc = "check"
    /\ NSet(notifyCheck(NCur))
    /\ UNCHANGED <<g_bleConnected, notifyFrame>>

NotifyDelay ==
    /\ notifyPc = "delay"
    /\ NSet(notifyDelay(NCur))
    /\ UNCHANGED <<g_bleConnected, notifyFrame>>

\* ble_core.cpp:162-169: onConnect, as far as the function sees it
NotifyConnect ==
    /\ ~g_bleConnected
    /\ g_bleConnected' = TRUE
    /\ s_lastSuccessfulNotifyMs' = millis /\ s_notifyErrors' = 0
    /\ UNCHANGED <<notifyPc, retry, attempts, notifyResult, notifyFrame>>

\* ble_core.cpp:193: onDisconnect, as far as the function sees it
NotifyDisconnect ==
    /\ g_bleConnected
    /\ g_bleConnected' = FALSE
    /\ UNCHANGED <<nvars, notifyFrame>>

NextNotify ==
    \/ NotifyCall \/ NotifyAttempt \/ NotifyCheck \/ NotifyDelay
    \/ NotifyConnect \/ NotifyDisconnect

SpecNotify == Init /\ [][NextNotify]_vars

\* ------------------------------------------------------------------ main.cpp setup()
\* A boot as a process of its own: the chip leaves reset with the globals
\* at their static initialisers and setup() runs its calls in order.  The
\* reset reason and the wake cause are what the chip reports; a wake cause
\* is set only when the reset is the wake from deep sleep.
ResetCauses ==
    {<<"POWERON", "UNDEFINED">>, <<"SW", "UNDEFINED">>, <<"PANIC", "UNDEFINED">>,
     <<"TASK_WDT", "UNDEFINED">>, <<"BROWNOUT", "UNDEFINED">>,
     <<"DEEPSLEEP", "EXT0">>, <<"DEEPSLEEP", "EXT1">>}

InitBoot ==
    /\ g_powerState = "ACTIVE" /\ g_wokeFromSleep = FALSE
    /\ s_lastActivityMs = 0 /\ s_lightSleepEnteredMs = 0
    /\ display = "off"
    /\ currentState = "IDLE" /\ g_bleConnected = FALSE
    /\ g_recordingInProgress = FALSE /\ g_sleeping = FALSE /\ g_dimmed = FALSE
    /\ g_isCharging = FALSE
    /\ g_ignoreTap = FALSE /\ g_recordingStartMs = 0 /\ g_waitingStartMs = 0
    /\ s_i2sInstalled = FALSE /\ s_i2sRunning = FALSE
    /\ s_micPinsConfigured = FALSE /\ g_is_recording = FALSE
    /\ s_recordingStartMs = 0
    /\ s_wasTouched = FALSE /\ s_touchDownMs = 0 /\ s_pendingTouch = FALSE
    /\ s_touchProcessed = FALSE /\ g_lastTouchY = -1 /\ g_touchMoved = FALSE
    /\ g_connId = NO_CONN /\ g_activeTransfer = FALSE /\ s_lastParamUpdateMs = 0
    /\ s_bleSleepMode = FALSE
    /\ s_fastAdvStartMs = 0 /\ s_fastAdvActive = FALSE
    /\ advInterval = "NORMAL" /\ advertising = FALSE /\ radioParamMs = 0
    /\ g_lastChargeCheckMs = 0
    /\ out = <<>>
    /\ pc = "top" /\ ran = <<>>
    /\ phase = 0 /\ notifyEnabled = FALSE /\ wakeTouch = FALSE
    /\ s_notifyErrors = 0 /\ s_lastSuccessfulNotifyMs = 0
    /\ notifyPc = "idle" /\ retry = 0 /\ attempts = 0 /\ notifyResult = "none"
    /\ bootPc = "powerManagerInit"
    /\ \E c \in ResetCauses : resetReason = c[1] /\ wakeReason = c[2]
    /\ wakeLine \in BOOLEAN
    /\ g_pmuPresent = FALSE
    /\ lastBatteryCheck = 0
    /\ battVoltage = -1 /\ pmuShutdown = FALSE
    /\ g_textPending = FALSE /\ g_pendingValue = "" /\ g_pendingReadyAtMs = 0
    /\ g_lastText = "" /\ g_haveHostTime = FALSE /\ wokeByText = FALSE
    /\ uptime = U32(0) /\ qPending = FALSE /\ qValue = <<>>
    /\ qReadyAtMs = U32(0) /\ popPc = "idle" /\ popNow = U32(0)
    /\ written = <<>> /\ handed = <<>>
    /\ sinceWrite = TEXT_CHUNK_TIMEOUT_MS /\ ticks = 0
    /\ g_otaActive = FALSE /\ g_expectedSize = 0 /\ g_receivedSize = 0
    /\ g_lastChunkMs = 0 /\ g_lastProgressNotifyMs = 0
    /\ g_restartPending = FALSE /\ g_restartAtMs = 0
    /\ otaIn = NoWrite /\ otaSent = <<>> /\ restarted = FALSE
    /\ ima_pred = 0 /\ ima_index = 0 /\ pcm = <<>> /\ adpcmOut = <<>>
    /\ encoded = 0
    /\ s_consecutiveErrors = 0 /\ s_totalChunksSent = 0 /\ audioNotified = <<>>
    /\ s_cpuLock = FALSE /\ s_cpuLockHeld = FALSE
    /\ pu_idleMs = 0 /\ pu_state = "ACTIVE"
    /\ vbusAttached = FALSE

\* main.cpp:133-135
wokeFromDeepSleep == wakeReason = "EXT0" \/ wakeReason = "EXT1"

\* power_manager.cpp:187-240 powerManagerInit
powerManagerInit(s) ==
    [s EXCEPT !.s_lastActivityMs = millis, !.g_powerState = "ACTIVE"]

\* ble_core.cpp:385-397: initBLE starts the fast advertising burst
initBLE(s) ==
    startAdvertising([setAdvIntervals(s, "FAST")
                         EXCEPT !.s_fastAdvStartMs = millis,
                                !.s_fastAdvActive = TRUE])

\* state.cpp:30-33
initState(s) == [s EXCEPT !.g_waitingStartMs = 0]

bootFrame ==
    <<pc, ran, phase, notifyEnabled, wakeTouch, nvars, battVars, textVars,
      queueVars, otaVars, adpcmVars,
      pumpVars,
      lockVars,
      raceVars,
      chargerVars>>

\* main.cpp:98-135: powerManagerInit, the serial port, the log of the reset
\* reason and of the wake cause
SetupPowerManagerInit ==
    /\ bootPc = "powerManagerInit"
    /\ Set(Emit(powerManagerInit(Cur),
                IF wokeFromDeepSleep THEN "Woke from deep sleep via touch/button"
                ELSE "Reset reason"))
    /\ bootPc' = "initPMU"
    /\ UNCHANGED <<resetReason, wakeReason, wakeLine, g_pmuPresent, bootFrame>>

\* main.cpp:140-146: the watchdog, g_pmuPresent = initPMU()
SetupInitPMU ==
    /\ bootPc = "initPMU"
    /\ \E found \in BOOLEAN : g_pmuPresent' = found
    /\ Set(Emit(Cur, "[INIT] PMU..."))
    /\ bootPc' = "uiInitDisplay"
    /\ UNCHANGED <<resetReason, wakeReason, wakeLine, bootFrame>>

\* main.cpp:151-157: uiInitDisplay; the boot animation is skipped on a wake
\* from deep sleep
SetupDisplay ==
    /\ bootPc = "uiInitDisplay"
    /\ Set(LET a == Emit(displaySetActive(Cur), "[INIT] Display...")
           IN  IF ~wokeFromDeepSleep THEN Emit(a, "playBootAnimation") ELSE a)
    /\ bootPc' = "initState"
    /\ UNCHANGED <<resetReason, wakeReason, wakeLine, g_pmuPresent, bootFrame>>

\* main.cpp:162-168: initState, timeSyncInit, initBatterySimulator
SetupInitState ==
    /\ bootPc = "initState"
    /\ Set(Emit(initState(Cur), "[INIT] State..."))
    /\ bootPc' = "initBLE"
    /\ UNCHANGED <<resetReason, wakeReason, wakeLine, g_pmuPresent, bootFrame>>

\* main.cpp:173-174
SetupInitBLE ==
    /\ bootPc = "initBLE"
    /\ Set(initBLE(Emit(Cur, "[INIT] BLE...")))
    /\ bootPc' = "initMic"
    /\ UNCHANGED <<resetReason, wakeReason, wakeLine, g_pmuPresent, bootFrame>>

\* main.cpp:179-180: initMic, which may fail
SetupInitMic ==
    /\ bootPc = "initMic"
    /\ \E ok \in BOOLEAN : Set(initMic(Emit(Cur, "[INIT] Mic"), ok))
    /\ bootPc' = "drawIdleScreen"
    /\ UNCHANGED <<resetReason, wakeReason, wakeLine, g_pmuPresent, bootFrame>>

\* main.cpp:186-196: the idle screen, updateChargingState; setup() returns
\* and loop() runs
SetupFinish ==
    /\ bootPc = "drawIdleScreen"
    /\ \E vbusIn \in BOOLEAN :
           Set(Emit(updateChargingState(Cur, g_pmuPresent /\ vbusIn),
                    "[INIT] Setup complete - entering main loop"))
    /\ bootPc' = "loop"
    /\ UNCHANGED <<resetReason, wakeReason, wakeLine, g_pmuPresent, bootFrame>>

NextBoot ==
    \/ SetupPowerManagerInit \/ SetupInitPMU \/ SetupDisplay \/ SetupInitState
    \/ SetupInitBLE \/ SetupInitMic \/ SetupFinish

SpecBoot == InitBoot /\ [][NextBoot]_vars

\* ------------------------------------------------------------------ power_manager.cpp
\* The battery check of powerUpdate, in a loop() whose touch handler is
\* reduced to its outcome: no touch, or a tap.  b is the record of the
\* statics of the check, of the voltage it read and of the power-off request.
BCur == [lastBatteryCheck |-> lastBatteryCheck, battVoltage |-> battVoltage,
         pmuShutdown |-> pmuShutdown]

BSet(b) ==
    /\ lastBatteryCheck' = b.lastBatteryCheck
    /\ battVoltage' = b.battVoltage /\ pmuShutdown' = b.pmuShutdown

\* what g_pmu.getBattVoltage() may return, in mV
Voltages ==
    {0, SHUTDOWN_THRESHOLD_MV - 1, SHUTDOWN_THRESHOLD_MV, BROWNOUT_THRESHOLD_MV}

\* power_manager.cpp:154-181.  Below BROWNOUT_THRESHOLD_MV the function
\* only logs a warning, at most every 30 s.
checkBatteryHealth(b, pmuPresent, isCharging, voltage) ==
    IF ~pmuPresent THEN b
    ELSE IF voltage < SHUTDOWN_THRESHOLD_MV /\ ~isCharging
    THEN [b EXCEPT !.battVoltage = voltage, !.pmuShutdown = TRUE]
    ELSE [b EXCEPT !.battVoltage = voltage]

\* power_manager.cpp:286-291 with the check behind the recording and the
\* light sleep of the state machine
batteryCheckDue_AwakeOnly(s, b) ==
    /\ Sub32(millis, b.lastBatteryCheck) > BATTERY_CHECK_MS
    /\ ~s.g_recordingInProgress /\ s.g_powerState # "LIGHT_SLEEP"

\* power_manager.cpp:288
batteryCheckDue(s, b) == Sub32(millis, b.lastBatteryCheck) > BATTERY_CHECK_MS

\* power_manager.cpp:286-291: the periodic battery check at the start of
\* powerUpdate
powerUpdateBattery(s, b, pmuPresent, voltage) ==
    IF batteryCheckDue(s, b)
    THEN checkBatteryHealth([b EXCEPT !.lastBatteryCheck = millis,
                                      !.battVoltage = -1],
                            pmuPresent, s.g_isCharging, voltage)
    ELSE [b EXCEPT !.battVoltage = -1]

InitBattery ==
    /\ InitLoop
    /\ g_pmuPresent \in BOOLEAN
    /\ g_isCharging => g_pmuPresent
    /\ uptime = U32(1000)

batteryFrame ==
    <<notifyEnabled, wakeTouch, nvars, bootVars, textVars, queueVars, otaVars,
      adpcmVars,
      pumpVars,
      lockVars,
      raceVars,
      chargerVars>>

\* main.cpp:222-230: the wake handler, or powerUpdate with its battery
\* check; g_pmu.shutdown() cuts the power
BatteryLoopTop ==
    /\ pc = "top" /\ ~pmuShutdown
    /\ IF g_wokeFromSleep
       THEN /\ Set(handleWakeFromLightSleep(Cur))
            /\ BSet([BCur EXCEPT !.battVoltage = -1])
            /\ pc' = "top"
            /\ ran' = <<"handleWakeFromLightSleep">>
       ELSE \E voltage \in Voltages :
                LET b == powerUpdateBattery(Cur, BCur, g_pmuPresent, voltage)
                    s == IF b.pmuShutdown
                         THEN Emit(Cur, "[POWER] CRITICAL: forcing shutdown!")
                         ELSE powerUpdate(Cur)
                IN  /\ Set(s) /\ BSet(b)
                    /\ pc' = IF b.pmuShutdown THEN "off"
                             ELSE IF Emitted(s, "esp_deep_sleep_start") THEN "halt"
                             ELSE "rest"
                    /\ ran' = IF batteryCheckDue(Cur, BCur)
                              THEN <<"powerUpdate", "checkBatteryHealth">>
                              ELSE <<"powerUpdate">>
    /\ UNCHANGED <<phase, batteryFrame>>

\* main.cpp:235-335: a tap toggles the recording, or wakes the watch from
\* light sleep (touch.cpp:60-72, 197-203); checkWaitingTimeout,
\* updateRecording, the UI section, and the pacing delay
BatteryLoopRest ==
    /\ pc = "rest"
    /\ \E tap \in BOOLEAN, vbusIn \in BOOLEAN :
          LET a == IF ~tap THEN Cur
                   ELSE IF g_powerState = "LIGHT_SLEEP" THEN powerMarkActivity(Cur)
                   ELSE IF g_recordingInProgress THEN stopRecording(Cur)
                   ELSE IF currentState = "IDLE" THEN startRecording(Cur, "ok")
                   ELSE markActivity(Cur)
              s == loopUI(loopRecording(a, "data"), g_pmuPresent /\ vbusIn)
          IN  \E d \in Quanta(s) :
                 /\ Set(Elapse(s, d))
                 /\ BSet([BCur EXCEPT
                             !.lastBatteryCheck = Past(@, d, BATTERY_CHECK_MS),
                             !.battVoltage = -1])
                 /\ phase' = (phase + d) % TickMs
    /\ pc' = "top"
    /\ ran' = <<>>
    /\ UNCHANGED batteryFrame

NextBattery ==
    \/ BatteryLoopTop \/ BatteryLoopRest
    \/ OnConnect \/ OnDisconnect \/ PeerSubscribe

SpecBattery == InitBattery /\ [][NextBattery]_vars

\* ------------------------------------------------------------------ ble_text.cpp
\* The text characteristic in a loop() with no finger on the panel.  x is
\* the record of the pending message and of what processPendingText writes
\* outside the globals of s.
XCur == [g_textPending |-> g_textPending, g_pendingValue |-> g_pendingValue,
         g_pendingReadyAtMs |-> g_pendingReadyAtMs, g_lastText |-> g_lastText,
         g_haveHostTime |-> g_haveHostTime, wokeByText |-> wokeByText]

XSet(x) ==
    /\ g_textPending' = x.g_textPending /\ g_pendingValue' = x.g_pendingValue
    /\ g_pendingReadyAtMs' = x.g_pendingReadyAtMs /\ g_lastText' = x.g_lastText
    /\ g_haveHostTime' = x.g_haveHostTime /\ wokeByText' = x.wokeByText

\* ble_text.cpp:33-44 TextCharCallbacks::onWrite: the fragment is appended;
\* the first fragment decides how the message starts
textOnWrite(x, value) ==
    [x EXCEPT !.g_pendingValue = IF @ = "" THEN value ELSE @,
              !.g_textPending = TRUE,
              !.g_pendingReadyAtMs = millis + TEXT_CHUNK_TIMEOUT_MS]

\* ble_text.cpp:20-31
popPendingText(x) ==
    IF x.g_textPending /\ millis >= x.g_pendingReadyAtMs
    THEN [has |-> TRUE, value |-> x.g_pendingValue,
          x |-> [x EXCEPT !.g_pendingValue = "", !.g_textPending = FALSE]]
    ELSE [has |-> FALSE, value |-> "", x |-> x]

\* time_sync.cpp:142-166: epochOk is whether the message carries an epoch
\* above 0
handleTimeMessage(s, x, epochOk) ==
    LET isBackgroundSync == x.g_haveHostTime /\ s.currentState # "WAITING_TIME"
    IN  IF ~epochOk THEN [s |-> s, x |-> x]
        ELSE LET a == IF s.currentState = "WAITING_TIME"
                      THEN [s EXCEPT !.currentState = "IDLE"] ELSE s
             IN  [s |-> IF ~isBackgroundSync THEN markActivity(a) ELSE a,
                  x |-> [x EXCEPT !.g_haveHostTime = TRUE]]

\* ble_text.cpp:50-66
processPendingText(s, x, epochOk) ==
    LET p == popPendingText(x)
    IN  IF ~p.has THEN [s |-> s, x |-> x]
        ELSE IF p.value = "TIME" THEN handleTimeMessage(s, p.x, epochOk)
        ELSE [s |-> Emit(markActivity([s EXCEPT !.g_waitingStartMs = 0,
                                                !.currentState = "ANSWER"]),
                         "[BLE] Received text response -> ANSWER"),
              x |-> [p.x EXCEPT !.g_lastText = p.value,
                                !.wokeByText = s.g_powerState = "LIGHT_SLEEP"]]

textFrame ==
    <<notifyEnabled, wakeTouch, nvars, bootVars, battVars, queueVars, otaVars,
      adpcmVars,
      pumpVars,
      lockVars,
      raceVars,
      chargerVars>>

\* main.cpp:222-230
TextLoopTop ==
    /\ pc = "top"
    /\ IF g_wokeFromSleep
       THEN /\ Set(handleWakeFromLightSleep(Cur))
            /\ pc' = "top"
            /\ ran' = <<"handleWakeFromLightSleep">>
       ELSE LET s == powerUpdate(Cur)
            IN  /\ Set(s)
                /\ pc' = IF Emitted(s, "esp_deep_sleep_start") THEN "halt" ELSE "rest"
                /\ ran' = <<"powerUpdate">>
    /\ XSet([XCur EXCEPT !.wokeByText = FALSE])
    /\ UNCHANGED <<phase, textFrame>>

\* main.cpp:235-335: handleTouch with no finger on the panel,
\* processPendingText, ensureAdvertisingAlive, checkWaitingTimeout, the UI
\* section, and the pacing delay
TextLoopRest ==
    /\ pc = "rest"
    /\ \E epochOk \in BOOLEAN, vbusIn \in BOOLEAN :
          LET r == processPendingText(handleTouch(Cur, FALSE, FALSE, FALSE).s,
                                      XCur, epochOk)
              s == loopUI(loopRecording(r.s, "empty"), vbusIn)
          IN  \E d \in Quanta(s) :
                 /\ Set(Elapse(s, d))
                 /\ XSet([r.x EXCEPT !.g_pendingReadyAtMs = Past(@, d, 0)])
                 /\ phase' = (phase + d) % TickMs
    /\ pc' = "top"
    /\ ran' = ran \o <<"handleTouch", "processPendingText">>
    /\ UNCHANGED textFrame

\* the peer writes a fragment to the text characteristic
TextWrite ==
    /\ g_bleConnected /\ pc # "halt"
    /\ \E value \in {"TIME", "TEXT"} : XSet(textOnWrite(XCur, value))
    /\ Set(Cur)
    /\ UNCHANGED <<pc, ran, phase, textFrame>>

NextText ==
    \/ TextLoopTop \/ TextLoopRest \/ TextWrite \/ OnConnect \/ OnDisconnect

SpecText == Init /\ [][NextText]_vars

\* ------------------------------------------------------------------ ble_text.cpp
\* The hand-over of the text fragments between the BLE task and loop(),
\* statement by statement: onWrite and the critical section of
\* popPendingText are atomic (portENTER_CRITICAL), the reading of millis()
\* in popPendingText comes before its critical section.
queueFrame ==
    <<fw, pc, ran, phase, notifyEnabled, wakeTouch, nvars, bootVars, battVars,
      textVars, otaVars, adpcmVars,
      pumpVars,
      lockVars,
      raceVars,
      chargerVars>>

QueueWrite ==
    /\ Len(written) < MaxFragments
    /\ LET fragment == Len(written) + 1
       IN  /\ qValue' = Append(qValue, fragment)
           /\ written' = Append(written, fragment)
    /\ qPending' = TRUE
    /\ qReadyAtMs' = U32Add(uptime, TEXT_CHUNK_TIMEOUT_MS)
    /\ sinceWrite' = 0
    /\ UNCHANGED <<uptime, popPc, popNow, handed, ticks>>
    /\ UNCHANGED queueFrame

\* ble_text.cpp:22: uint32_t now = millis();
QueuePopRead ==
    /\ popPc = "idle"
    /\ popNow' = uptime /\ popPc' = "critical"
    /\ UNCHANGED <<uptime, qPending, qValue, qReadyAtMs, written, handed,
                   sinceWrite, ticks>>
    /\ UNCHANGED queueFrame

\* ble_text.cpp:24
popReady == qPending /\ popNow >= qReadyAtMs

\* ble_text.cpp:23-30: the critical section; the message goes to
\* processPendingText
QueuePopCritical ==
    /\ popPc = "critical"
    /\ IF popReady
       THEN /\ handed' = Append(handed, qValue)
            /\ qValue' = <<>> /\ qPending' = FALSE
       ELSE UNCHANGED <<handed, qValue, qPending>>
    /\ popPc' = "idle"
    /\ UNCHANGED <<uptime, qReadyAtMs, popNow, written, sinceWrite, ticks>>
    /\ UNCHANGED queueFrame

\* QuantumMs pass
QueueTick ==
    /\ ticks < MaxTicks
    /\ ticks' = ticks + 1
    /\ uptime' = U32Add(uptime, QuantumMs)
    /\ sinceWrite' = IF sinceWrite + QuantumMs >= TEXT_CHUNK_TIMEOUT_MS
                     THEN TEXT_CHUNK_TIMEOUT_MS ELSE sinceWrite + QuantumMs
    /\ UNCHANGED <<qPending, qValue, qReadyAtMs, popPc, popNow, written, handed>>
    /\ UNCHANGED queueFrame

\* loop() runs from any uptime: one second after the boot, or just before
\* the 32-bit clock wraps (49.7 days; the watch does not sleep while
\* it charges)
InitQueue == InitLoop /\ g_pmuPresent = TRUE /\ uptime \in StartTimes

NextQueue == QueueWrite \/ QueuePopRead \/ QueuePopCritical \/ QueueTick

SpecQueue == InitQueue /\ [][NextQueue]_vars

\* ------------------------------------------------------------------ ble_ota.cpp
\* o is the record of the statics of ble_ota.cpp and of the status messages
\* sent.
OCur == [g_otaActive |-> g_otaActive, g_expectedSize |-> g_expectedSize,
         g_receivedSize |-> g_receivedSize, g_lastChunkMs |-> g_lastChunkMs,
         g_lastProgressNotifyMs |-> g_lastProgressNotifyMs,
         g_restartPending |-> g_restartPending, g_restartAtMs |-> g_restartAtMs,
         otaSent |-> <<>>, restarted |-> restarted]

OSet(o) ==
    /\ g_otaActive' = o.g_otaActive /\ g_expectedSize' = o.g_expectedSize
    /\ g_receivedSize' = o.g_receivedSize /\ g_lastChunkMs' = o.g_lastChunkMs
    /\ g_lastProgressNotifyMs' = o.g_lastProgressNotifyMs
    /\ g_restartPending' = o.g_restartPending /\ g_restartAtMs' = o.g_restartAtMs
    /\ otaSent' = o.otaSent /\ restarted' = o.restarted

\* ble_ota.cpp:37-41
sendStatus(o, msg) == [o EXCEPT !.otaSent = Append(@, msg)]

\* ble_ota.cpp:43-55; reason "" is nullptr
resetOtaState(o, reason) ==
    [(IF reason # "" THEN sendStatus(o, reason) ELSE o) EXCEPT
        !.g_otaActive = FALSE, !.g_expectedSize = 0, !.g_receivedSize = 0,
        !.g_lastChunkMs = 0, !.g_lastProgressNotifyMs = 0,
        !.g_restartPending = FALSE, !.g_restartAtMs = 0]

\* ble_ota.cpp:57-66; the message is "PROG:<percent>"
maybeSendProgress(o) ==
    IF ~o.g_otaActive \/ o.g_expectedSize = 0 THEN o
    ELSE IF Sub32(millis, o.g_lastProgressNotifyMs) < OTA_PROGRESS_INTERVAL_MS THEN o
    ELSE [sendStatus(o, "PROG") EXCEPT !.g_lastProgressNotifyMs = millis]

\* finalizeOta that reports the success and schedules no restart
finalizeOta_NoRestart(o, endOk) ==
    IF ~endOk THEN resetOtaState(o, "ERR:END")
    ELSE sendStatus([o EXCEPT !.g_otaActive = FALSE], "OTA_OK")

\* ble_ota.cpp:68-78; endOk is Update.end(true)
finalizeOta(o, endOk) ==
    IF ~endOk THEN resetOtaState(o, "ERR:END")
    ELSE [sendStatus([o EXCEPT !.g_otaActive = FALSE], "OTA_OK") EXCEPT
             !.g_restartPending = TRUE,
             !.g_restartAtMs = millis + OTA_RESTART_DELAY_MS]

\* ble_ota.cpp:80-111; beginOk is Update.begin(size)
startOta(s, o, size, beginOk) ==
    IF o.g_otaActive THEN [s |-> s, o |-> sendStatus(o, "ERR:BUSY")]
    ELSE IF size = 0 THEN [s |-> s, o |-> sendStatus(o, "ERR:SIZE")]
    ELSE LET a == markActivity(IF s.g_recordingInProgress
                               THEN stopRecording(s) ELSE s)
         IN  IF ~beginOk THEN [s |-> a, o |-> sendStatus(o, "ERR:BEGIN")]
             ELSE [s |-> a,
                   o |-> sendStatus([o EXCEPT !.g_otaActive = TRUE,
                                              !.g_expectedSize = size,
                                              !.g_receivedSize = 0,
                                              !.g_lastChunkMs = millis,
                                              !.g_lastProgressNotifyMs = 0],
                                    "ACK:BEGIN")]

\* ble_ota.cpp:113-140: the text after "BEGIN:" is parsed; size is 0 when it
\* is empty, zero or no number
handleBeginMessage(s, o, size, beginOk) ==
    IF size = 0 THEN [s |-> s, o |-> sendStatus(o, "ERR:SIZE")]
    ELSE startOta(s, o, size, beginOk)

\* ble_ota.cpp:142-165; writeOk is whether Update.write took all len bytes
handleDataChunk(s, o, len, writeOk, endOk) ==
    IF ~o.g_otaActive \/ len = 0 THEN [s |-> s, o |-> o]
    ELSE IF ~writeOk THEN [s |-> s, o |-> resetOtaState(o, "ERR:WRITE")]
    ELSE LET a == maybeSendProgress([o EXCEPT !.g_receivedSize = @ + len,
                                              !.g_lastChunkMs = millis])
         IN  [s |-> markActivity(s),
              o |-> IF a.g_receivedSize > a.g_expectedSize
                    THEN resetOtaState(a, "ERR:SIZE_MISMATCH")
                    ELSE IF a.g_receivedSize = a.g_expectedSize
                    THEN finalizeOta(a, endOk)
                    ELSE a]

\* onWrite that takes a value starting with "BEGIN:" for payload while a
\* session is active
otaOnWrite_BeginIsPayload(s, o, w) ==
    IF w.len = 0 THEN [s |-> s, o |-> o]
    ELSE IF w.prefix = "BEGIN:" /\ ~o.g_otaActive
    THEN handleBeginMessage(s, o, w.size, w.beginOk)
    ELSE IF w.prefix = "ABORT" THEN [s |-> s, o |-> resetOtaState(o, "ERR:ABORT")]
    ELSE IF ~o.g_otaActive THEN [s |-> s, o |-> o]
    ELSE handleDataChunk(s, o, w.len, w.writeOk, w.endOk)

\* ble_ota.cpp:167-190 OtaCharCallbacks::onWrite
otaOnWrite(s, o, w) ==
    IF w.len = 0 THEN [s |-> s, o |-> o]
    ELSE IF w.prefix = "BEGIN:"
    THEN IF o.g_otaActive THEN [s |-> s, o |-> sendStatus(o, "ERR:BUSY")]
         ELSE handleBeginMessage(s, o, w.size, w.beginOk)
    ELSE IF w.prefix = "ABORT" THEN [s |-> s, o |-> resetOtaState(o, "ERR:ABORT")]
    ELSE IF ~o.g_otaActive THEN [s |-> s, o |-> o]
    ELSE handleDataChunk(s, o, w.len, w.writeOk, w.endOk)

\* ble_ota.cpp:196-202
otaHandleDisconnected(o) ==
    [(IF o.g_otaActive THEN resetOtaState(o, "") ELSE o) EXCEPT
        !.g_restartPending = FALSE, !.g_restartAtMs = 0]

\* ble_ota.cpp:204-213; ESP.restart() does not return
otaLoop(o) ==
    IF o.g_restartPending /\ millis >= o.g_restartAtMs
    THEN [o EXCEPT !.restarted = TRUE]
    ELSE IF o.g_otaActive /\ o.g_lastChunkMs > 0
            /\ Sub32(millis, o.g_lastChunkMs) > OTA_CHUNK_TIMEOUT_MS
    THEN resetOtaState(o, "ERR:TIMEOUT")
    ELSE o

otaFrame ==
    <<pc, phase, notifyEnabled, wakeTouch, nvars, bootVars, battVars, textVars,
      queueVars, adpcmVars,
      pumpVars,
      lockVars,
      raceVars,
      chargerVars>>

\* the peer writes a value to the OTA characteristic
OtaWrite ==
    /\ g_bleConnected /\ ~restarted
    /\ \E w \in OtaWrites :
          /\ w.prefix = "ABORT" => w.len = 1
          /\ w.prefix # "BEGIN:" => w.size = 0 /\ w.beginOk
          /\ w.prefix # "other" => w.writeOk /\ w.endOk
          /\ LET r == otaOnWrite(Cur, OCur, w)
             IN  Set(r.s) /\ OSet(r.o)
          /\ otaIn' = w
    /\ ran' = <<>>
    /\ UNCHANGED otaFrame

\* main.cpp:241: loop() calls otaLoop
OtaLoop ==
    /\ ~restarted
    /\ OSet(otaLoop(OCur)) /\ Set(Cur)
    /\ otaIn' = NoWrite /\ ran' = <<"otaLoop">>
    /\ UNCHANGED otaFrame

\* the connection ends: ble_core.cpp:193-224 onDisconnect, which calls
\* otaHandleDisconnected (:211)
OtaDisconnect ==
    /\ g_bleConnected /\ ~restarted
    /\ Set([onDisconnect(Cur) EXCEPT !.radioParamMs = 0])
    /\ OSet(otaHandleDisconnected(OCur))
    /\ otaIn' = NoWrite /\ ran' = <<>>
    /\ UNCHANGED otaFrame

\* a peer connects
OtaConnect ==
    /\ ~g_bleConnected /\ advertising /\ ~restarted
    /\ Set([onConnect(Cur) EXCEPT !.advertising = FALSE])
    /\ otaSent' = <<>> /\ otaIn' = NoWrite /\ ran' = <<>>
    /\ UNCHANGED <<g_otaActive, g_expectedSize, g_receivedSize, g_lastChunkMs,
                   g_lastProgressNotifyMs, g_restartPending, g_restartAtMs,
                   restarted, otaFrame>>

\* time passes, as far as ble_ota.cpp reads the clock (the timers of the
\* power manager are not read in this specification)
OtaTick ==
    /\ ~restarted
    /\ \E d \in {OTA_RESTART_DELAY_MS, OTA_CHUNK_TIMEOUT_MS} :
          /\ Set(Cur)
          /\ OSet([OCur EXCEPT
                      !.g_lastChunkMs = Past(@, d, OTA_CHUNK_TIMEOUT_MS),
                      !.g_lastProgressNotifyMs = Past(@, d, OTA_PROGRESS_INTERVAL_MS),
                      !.g_restartAtMs = Past(@, d, 0)])
    /\ otaIn' = NoWrite /\ ran' = <<>>
    /\ UNCHANGED otaFrame

NextOta == OtaWrite \/ OtaLoop \/ OtaDisconnect \/ OtaConnect \/ OtaTick

SpecOta == Init /\ [][NextOta]_vars

\* ------------------------------------------------------------------ ADPCM
\* audio_adpcm.cpp:3-16
ima_step_table ==
    <<7, 8, 9, 10, 11, 12, 13, 14,
      16, 17, 19, 21, 23, 25, 28, 31,
      34, 37, 41, 45, 50, 55, 60, 66,
      73, 80, 88, 97, 107, 118, 130, 143,
      157, 173, 190, 209, 230, 253, 279, 307,
      337, 371, 408, 449, 494, 544, 598, 658,
      724, 796, 876, 963, 1060, 1166, 1282, 1411,
      1552, 1707, 1878, 2066, 2272, 2499, 2749, 3024,
      3327, 3660, 4026, 4428, 4871, 5358, 5894, 6484,
      7132, 7845, 8630, 9493, 10442, 11487, 12635, 13899,
      15289, 16818, 18500, 20350, 22385, 24623, 27086, 29794,
      32767>>

\* audio_adpcm.cpp:18-21
ima_index_table ==
    <<-1, -1, -1, -1, 2, 4, 6, 8,
      -1, -1, -1, -1, 2, 4, 6, 8>>

\* the values of an int16_t, and the conversion of an int to int16_t (the
\* value modulo 2^16, as the compiler of the firmware has it)
INT16_MIN == -32768
INT16_MAX == 32767
Int16(x) == ((x - INT16_MIN) % 65536) + INT16_MIN

\* audio_adpcm.cpp:61-62: the value clamped to the range of an int16_t
Saturate16(x) ==
    IF x > INT16_MAX THEN INT16_MAX ELSE IF x < INT16_MIN THEN INT16_MIN ELSE x

\* the samples a block is made of, and the longest block
Samples == {INT16_MIN, 0, INT16_MAX}
MaxBlock == 3

\* the longest stream encoded between two resets
MaxSamples == 11

\* audio_adpcm.cpp:40-52: the 4-bit code of a difference at a step size
ima_code(diff0, step) ==
    LET neg == diff0 < 0
        d0 == IF neg THEN -diff0 ELSE diff0
        b2 == d0 >= step
        d1 == IF b2 THEN d0 - step ELSE d0
        t1 == step \div 2
        b1 == d1 >= t1
        d2 == IF b1 THEN d1 - t1 ELSE d1
        t2 == t1 \div 2
        b0 == d2 >= t2
    IN  (IF neg THEN 8 ELSE 0) + (IF b2 THEN 4 ELSE 0)
        + (IF b1 THEN 2 ELSE 0) + (IF b0 THEN 1 ELSE 0)

\* audio_adpcm.cpp:54-58: the delta the decoder reconstructs from a code
ima_delta(code, step) ==
    LET mag == (step \div 8)
               + (IF (code \div 4) % 2 = 1 THEN step ELSE 0)
               + (IF (code \div 2) % 2 = 1 THEN step \div 2 ELSE 0)
               + (IF code % 2 = 1 THEN step \div 4 ELSE 0)
    IN  IF code >= 8 THEN -mag ELSE mag

\* an index that is only kept from growing beyond the table
ima_clamp_index_NoFloor(i) == IF i > 88 THEN 88 ELSE i

\* audio_adpcm.cpp:65-66
ima_clamp_index(i) == IF i < 0 THEN 0 ELSE IF i > 88 THEN 88 ELSE i

\* audio_adpcm.cpp:60-62: pred is an int16_t, so the sum is converted to
\* 16 bits by the assignment, before the two comparisons
ima_next_pred(pred, delta) == Saturate16(Int16(pred + delta))

\* audio_adpcm.cpp:40-66: one sample; e is [pred, index, codes]
ima_encode_sample(e, x) ==
    LET step  == ima_step_table[e.index + 1]
        code  == ima_code(x - e.pred, step)
        delta == ima_delta(code, step)
    IN  [pred  |-> ima_next_pred(e.pred, delta),
         index |-> ima_clamp_index(e.index + ima_index_table[code + 1]),
         codes |-> Append(e.codes, code)]

\* audio_adpcm.cpp:39: the encoder after the first n samples of a block
RECURSIVE ima_encode_samples(_, _, _)
ima_encode_samples(e, block, n) ==
    IF n = 0 THEN e
    ELSE ima_encode_sample(ima_encode_samples(e, block, n - 1), block[n])

\* a packing that puts the first code of a pair in the high nibble
RECURSIVE ima_pack_HighFirst(_)
ima_pack_HighFirst(codes) ==
    IF codes = <<>> THEN <<>>
    ELSE IF Len(codes) = 1 THEN <<codes[1]>>
    ELSE <<16 * codes[1] + codes[2]>>
         \o ima_pack_HighFirst(SubSeq(codes, 3, Len(codes)))

\* audio_adpcm.cpp:68-77: two codes to a byte, the first in the low nibble,
\* and a last byte for a code left over
RECURSIVE ima_pack(_)
ima_pack(codes) ==
    IF codes = <<>> THEN <<>>
    ELSE IF Len(codes) = 1 THEN <<codes[1]>>
    ELSE <<codes[1] + 16 * codes[2]>> \o ima_pack(SubSeq(codes, 3, Len(codes)))

adpcmFrame ==
    <<fw, pc, ran, phase, notifyEnabled, wakeTouch, nvars, bootVars, battVars,
      textVars, queueVars, otaVars,
      pumpVars,
      lockVars,
      raceVars,
      chargerVars>>

\* audio_adpcm.cpp:26-29
ImaResetState ==
    /\ ima_pred' = 0 /\ ima_index' = 0
    /\ encoded' = 0
    /\ UNCHANGED <<pcm, adpcmOut, adpcmFrame>>

\* audio_adpcm.cpp:31-83
ImaEncodeBlock ==
    \E n \in 1..MaxBlock : \E block \in [1..n -> Samples] :
        LET e == ima_encode_samples([pred |-> ima_pred, index |-> ima_index,
                                     codes |-> <<>>], block, n)
        IN  /\ encoded + n <= MaxSamples
            /\ encoded' = encoded + n
            /\ pcm' = block
            /\ adpcmOut' = ima_pack(e.codes)
            /\ ima_pred' = e.pred /\ ima_index' = e.index
            /\ UNCHANGED adpcmFrame

NextAdpcm == ImaResetState \/ ImaEncodeBlock

InitAdpcm == Init /\ ~g_isCharging /\ ~s_i2sInstalled

SpecAdpcm == InitAdpcm /\ [][NextAdpcm]_vars


\* ------------------------------------------------------------------ recording pump
\* audio_i2s.cpp:34
DMA_BUF_LEN == 512

\* the chunks and failed reads of a recording that are told apart
MaxChunks == 2
MaxErrors == 2

\* what i2s_read gives: whether it fails, and the bytes it has read
Reads == [err : BOOLEAN, bytes : {0, 1, 2, 2 * DMA_BUF_LEN - 1, 2 * DMA_BUF_LEN}]

\* audio_adpcm.cpp:68-82: the bytes ima_encode_block writes for n samples:
\* outIndex grows at every second sample (:72), and once more when a
\* nibble is left over after the last (:77)
ima_encode_count(n) == (n \div 2) + (IF n % 2 = 1 THEN 1 ELSE 0)

\* audio_i2s.cpp:325-350: what a read is to updateRecording
readKind(r) ==
    IF r.err THEN "err"
    ELSE IF r.bytes = 0 \/ r.bytes \div 2 = 0 THEN "empty"
    ELSE IF ima_encode_count(r.bytes \div 2) = 0 THEN "err"
    ELSE "data"

\* audio_i2s.cpp:180-184: startMic resets the counters once the driver is
\* installed, not running and its pins are configured
startMicCounters(s, p, hw) ==
    LET a == IF ~s.s_i2sInstalled THEN initMic(s, hw # "init_fail") ELSE s
    IN  IF ~a.s_i2sInstalled \/ a.s_i2sRunning
           \/ (~a.s_micPinsConfigured /\ hw = "pin_fail")
        THEN p
        ELSE [p EXCEPT !.errors = 0, !.chunks = 0]

\* updateRecording that leaves the error counter alone after a chunk
updateRecordingCounters_KeepsErrors(s, p, r) ==
    IF readKind(r) = "data" /\ s.s_i2sRunning /\ s.g_is_recording
    THEN [p EXCEPT !.chunks = @ + 1,
                   !.sent = <<ima_encode_count(r.bytes \div 2)>>]
    ELSE p

\* audio_i2s.cpp:280-361: the counters and the audio notification of an
\* updateRecording call; p is [errors, chunks, sent]
updateRecordingCounters(s, p, r) ==
    IF ~s.s_i2sRunning \/ ~s.g_is_recording THEN p
    ELSE IF Sub32(millis, s.s_recordingStartMs) > RECORDING_MAX_DURATION_MS THEN p
    ELSE IF ~bleIsConnected(s) THEN p
    ELSE IF r.err THEN [p EXCEPT !.errors = @ + 1]
    ELSE IF r.bytes = 0 \/ r.bytes \div 2 = 0 THEN p
    ELSE LET outBytes == ima_encode_count(r.bytes \div 2)
         IN  IF outBytes = 0 THEN [p EXCEPT !.errors = @ + 1]
             ELSE [errors |-> 0, chunks |-> p.chunks + 1, sent |-> <<outBytes>>]

PCur == [errors |-> s_consecutiveErrors, chunks |-> s_totalChunksSent,
         sent |-> <<>>]

PSet(p) ==
    /\ s_consecutiveErrors' = p.errors /\ s_totalChunksSent' = p.chunks
    /\ audioNotified' = p.sent

pumpFrame ==
    <<pc, phase, wakeTouch, nvars, bootVars, battVars, textVars,
      queueVars, otaVars, adpcmVars,
      lockVars,
      raceVars,
      chargerVars>>

\* state.cpp startRecording, called for a tap in IDLE
PumpStart ==
    /\ currentState = "IDLE" /\ ~g_recordingInProgress
    /\ \E hw \in {"ok", "start_fail"} :
          /\ Set(startRecording(Cur, hw))
          /\ PSet(IF canSendControlMessages(Cur)
                  THEN startMicCounters(markActivity(Cur), PCur, hw) ELSE PCur)
    /\ ran' = <<"startRecording">>
    /\ UNCHANGED <<notifyEnabled, pumpFrame>>

\* main.cpp:250-254: updateRecording while a recording is in progress
PumpUpdate ==
    /\ g_recordingInProgress
    /\ \E r \in Reads :
          /\ readKind(r) = "data" => s_totalChunksSent < MaxChunks
          /\ r.err => s_consecutiveErrors < MaxErrors
          /\ Set(updateRecording(Cur, readKind(r)))
          /\ PSet(updateRecordingCounters(Cur, PCur, r))
          /\ ran' = <<"updateRecording", r>>
    /\ UNCHANGED <<notifyEnabled, pumpFrame>>

\* state.cpp stopRecording, called for a tap in RECORDING
PumpStop ==
    /\ g_recordingInProgress
    /\ Set(stopRecording(Cur))
    /\ PSet(PCur)
    /\ ran' = <<"stopRecording">>
    /\ UNCHANGED <<notifyEnabled, pumpFrame>>

\* time passes
PumpTick ==
    /\ \E d \in {TickMs, RECORDING_MAX_DURATION_MS} : Set(Elapse(Cur, d))
    /\ PSet(PCur)
    /\ ran' = <<>>
    /\ UNCHANGED <<notifyEnabled, pumpFrame>>

\* the answer to a recording arrives, or the wait for it ends
PumpIdle ==
    /\ currentState \in {"WAITING_ANSWER", "WAITING_TIME", "ANSWER"}
    /\ Set([Cur EXCEPT !.currentState = "IDLE", !.g_waitingStartMs = 0])
    /\ PSet(PCur)
    /\ ran' = <<>>
    /\ UNCHANGED <<notifyEnabled, pumpFrame>>

\* ble_core.cpp:162-224: a peer connects, the connection ends, or the peer
\* writes the CCCD (0x2902) of the audio characteristic
PumpLink ==
    /\ \/ /\ ~g_bleConnected /\ advertising
          /\ Set([onConnect(Cur) EXCEPT !.advertising = FALSE])
          /\ UNCHANGED notifyEnabled
       \/ /\ g_bleConnected
          /\ Set([onDisconnect(Cur) EXCEPT !.radioParamMs = 0])
          /\ UNCHANGED notifyEnabled
       \/ /\ g_bleConnected
          /\ Set(Cur)
          /\ notifyEnabled' = ~notifyEnabled
    /\ PSet(PCur)
    /\ ran' = <<>>
    /\ UNCHANGED pumpFrame

NextPump ==
    PumpStart \/ PumpUpdate \/ PumpStop \/ PumpTick \/ PumpIdle \/ PumpLink

SpecPump == Init /\ [][NextPump]_vars

\* ------------------------------------------------------------------ CPU lock
\* power_manager.cpp:57-62; lock is s_cpuLock # nullptr
acquireCpuLock(lock, held) == IF lock /\ ~held THEN TRUE ELSE held

\* power_manager.cpp:64-69
releaseCpuLock(lock, held) == IF lock /\ held THEN FALSE ELSE held

\* power_manager.cpp:293-305: s_cpuLockHeld after powerUpdate
powerUpdateCpuLock(s, lock, held) ==
    IF s.g_recordingInProgress
    THEN IF s.g_powerState # "ACTIVE" THEN acquireCpuLock(lock, held) ELSE held
    ELSE releaseCpuLock(lock, held)

\* power_manager.cpp:503-538: s_cpuLockHeld after handleWakeFromLightSleep
handleWakeCpuLock(lock, held) ==
    releaseCpuLock(lock, acquireCpuLock(lock, held))

lockFrame ==
    <<bootVars, battVars, textVars, queueVars, otaVars, adpcmVars, pumpVars,
      raceVars,
      chargerVars>>

\* main.cpp:222-230: the wake handler, or powerUpdate with the CPU lock
LockLoopTop ==
    /\ pc = "top"
    /\ IF g_wokeFromSleep
       THEN /\ Set(handleWakeFromLightSleep(Cur))
            /\ s_cpuLockHeld' = handleWakeCpuLock(s_cpuLock, s_cpuLockHeld)
            /\ pc' = "top"
            /\ ran' = <<"handleWakeFromLightSleep">>
       ELSE LET s == powerUpdate(Cur)
            IN  /\ Set(s)
                /\ s_cpuLockHeld' = powerUpdateCpuLock(Cur, s_cpuLock, s_cpuLockHeld)
                /\ pc' = IF Emitted(s, "esp_deep_sleep_start") THEN "halt" ELSE "touch"
                /\ ran' = <<"powerUpdate">>
    /\ UNCHANGED <<phase, notifyEnabled, wakeTouch, nvars, s_cpuLock, lockFrame>>

NextLock ==
    \/ LockLoopTop \/ LoopTouch \/ LoopStartRecording \/ LoopRest
    \/ OnConnect \/ OnDisconnect \/ PeerSubscribe

SpecLock == Init /\ [][NextLock]_vars

\* ------------------------------------------------------------------ powerUpdate and the BLE task
\* The server callbacks run in the Bluetooth task while loop() runs in the
\* Arduino task, and nothing orders powerMarkActivity, called from
\* onConnect, against powerUpdate.  Here loop() reads the wake flag
\* (main.cpp:222), powerUpdate reads the clock and the idle time
\* (power_manager.cpp:283-284), its switch statement reads g_powerState
\* (:309), and the case it chose runs, as four steps between which the
\* callbacks run.  The peer of this specification connects and disconnects
\* and never subscribes to the audio characteristic, so that no recording
\* starts.

\* power_manager.cpp:309-357: the case of the switch chosen for the state
\* st, with the idle time idle computed at the top of the function
powerUpdateSwitch(s, st, idle) ==
    CASE st = "ACTIVE" ->
            IF idle >= TIMEOUT_DIM_MS
            THEN Emit(displaySetDimmed(
                          [s EXCEPT !.g_powerState = "DIMMED",
                                    !.g_dimmed = TRUE,
                                    !.g_sleeping = FALSE]),
                      "[POWER] -> DIMMED")
            ELSE s
      [] st = "DIMMED" ->
            IF idle >= TIMEOUT_LIGHT_SLEEP_MS /\ ~s.g_isCharging
            THEN Emit(bleEnterSleepMode(displaySetOff(
                          [s EXCEPT !.g_powerState = "LIGHT_SLEEP",
                                    !.g_sleeping = TRUE,
                                    !.g_dimmed = FALSE,
                                    !.s_lightSleepEnteredMs = millis])),
                      "[POWER] -> LIGHT_SLEEP")
            ELSE s
      [] st = "LIGHT_SLEEP" ->
            IF s.g_isCharging
            THEN bleExitSleepMode(displaySetDimmed(
                     [s EXCEPT !.g_powerState = "DIMMED",
                               !.g_dimmed = TRUE,
                               !.g_sleeping = FALSE]))
            ELSE IF TIMEOUT_DEEP_SLEEP_MS > 0
                    /\ Sub32(millis, s.s_lightSleepEnteredMs) >= TIMEOUT_DEEP_SLEEP_MS
            THEN powerForceDeepSleep(Emit(s, "[POWER] -> DEEP_SLEEP (5min timeout)"))
            ELSE s
      [] OTHER -> s

raceFrame ==
    <<bootVars, battVars, textVars, queueVars, otaVars, adpcmVars, pumpVars,
      lockVars, chargerVars>>

\* main.cpp:222-227: the wake flag is read; the wake handler returns from loop()
RaceLoopTop ==
    /\ pc = "top"
    /\ IF g_wokeFromSleep
       THEN /\ Set(handleWakeFromLightSleep(Cur))
            /\ pc' = "top"
            /\ ran' = <<"handleWakeFromLightSleep">>
       ELSE /\ Set(Cur)
            /\ pc' = "powerUpdate"
            /\ ran' = <<>>
    /\ UNCHANGED <<phase, notifyEnabled, wakeTouch, nvars, raceVars, raceFrame>>

\* power_manager.cpp:283-284: now and idleMs
RaceReadIdle ==
    /\ pc = "powerUpdate"
    /\ pu_idleMs' = idleMs
    /\ Set(Cur)
    /\ pc' = "guard"
    /\ UNCHANGED <<ran, phase, notifyEnabled, wakeTouch, nvars, pu_state, raceFrame>>

\* power_manager.cpp:294-309: the recording guard, then the switch reads
\* g_powerState
RaceReadState ==
    /\ pc = "guard"
    /\ IF g_recordingInProgress
       THEN /\ Set(powerUpdate(Cur))
            /\ pc' = "touch"
            /\ ran' = <<"powerUpdate">>
            /\ UNCHANGED pu_state
       ELSE /\ Set(Cur)
            /\ pu_state' = g_powerState
            /\ pc' = "switch"
            /\ UNCHANGED ran
    /\ UNCHANGED <<phase, notifyEnabled, wakeTouch, nvars, pu_idleMs, raceFrame>>

\* power_manager.cpp:310-357: the chosen case
RaceSwitch ==
    /\ pc = "switch"
    /\ LET s == powerUpdateSwitch(Cur, pu_state, pu_idleMs)
       IN  /\ Set(s)
           /\ pc' = IF Emitted(s, "esp_deep_sleep_start") THEN "halt" ELSE "touch"
    /\ ran' = <<"powerUpdate">>
    /\ UNCHANGED <<phase, notifyEnabled, wakeTouch, nvars, raceVars, raceFrame>>

NextRace ==
    \/ RaceLoopTop \/ RaceReadIdle \/ RaceReadState \/ RaceSwitch
    \/ LoopTouch \/ LoopRest
    \/ OnConnect \/ OnDisconnect

SpecRace == Init /\ [][NextRace]_vars

\* ------------------------------------------------------------------ the link profile
\* The main loop on a finer clock: MaxFine fine quanta fit between two
\* coarse boundaries, so that a recording can be stopped by a second tap
\* less than BLE_PARAM_UPDATE_MIN_INTERVAL_MS after it started.  The
\* charger stays unplugged and the peer, once connected, stays connected.
MaxFine == 2

LinkQuanta(s) ==
    LET coarse == IF /\ s.g_powerState = "LIGHT_SLEEP"
                     /\ s.currentState \notin {"WAITING_ANSWER", "WAITING_TIME"}
                  THEN LongMs ELSE TickMs
    IN  {0, coarse - phase}
            \cup (IF phase < MaxFine * FineMs THEN {FineMs} ELSE {})

\* main.cpp:240-335: the rest of loop() and the pacing delay
LinkRest ==
    /\ pc = "rest"
    /\ \E rd \in (IF g_recordingInProgress /\ s_i2sRunning
                  THEN {"err", "empty", "data"} ELSE {"empty"}) :
          LET s == loopUI(loopRecording(Cur, rd), FALSE)
          IN  \E d \in LinkQuanta(s) :
                 /\ Set(Elapse(s, d))
                 /\ phase' = (phase + d) % TickMs
    /\ pc' = "top"
    /\ ran' = ran \o <<"processPendingText", "otaLoop",
                       "ensureAdvertisingAlive", "checkWaitingTimeout">>
                   \o (IF g_recordingInProgress
                       THEN <<"updateRecording">> ELSE <<>>)
    /\ UNCHANGED <<notifyEnabled, wakeTouch>>
    /\ UNCHANGED <<nvars, side>>

NextLink ==
    \/ LoopTop \/ LoopTouch \/ LoopStartRecording \/ LinkRest
    \/ OnConnect \/ PeerSubscribe

InitLink == Init /\ ~g_isCharging

SpecLink == InitLink /\ [][NextLink]_vars

\* ------------------------------------------------------------------ the charger
\* The main loop with the charger as part of the state: it is plugged in
\* and pulled out at any time, and updateChargingState reads the pin.  No
\* peer connects.
chargerFrame ==
    <<bootVars, battVars, textVars, queueVars, otaVars, adpcmVars, pumpVars,
      lockVars, raceVars>>

\* the charger is plugged in or pulled out
ChargerPlug ==
    /\ pc # "halt"
    /\ vbusAttached' = ~vbusAttached
    /\ Set(Cur)
    /\ UNCHANGED <<pc, ran, phase, notifyEnabled, wakeTouch, nvars, chargerFrame>>

\* main.cpp:240-335: the rest of loop() and the pacing delay
ChargerRest ==
    /\ pc = "rest"
    /\ LET s == loopUI(loopRecording(Cur, "empty"), vbusAttached)
       IN  \E d \in Quanta(s) :
              /\ Set(Elapse(s, d))
              /\ phase' = (phase + d) % TickMs
    /\ pc' = "top"
    /\ ran' = ran \o <<"processPendingText", "otaLoop",
                       "ensureAdvertisingAlive", "checkWaitingTimeout">>
    /\ UNCHANGED <<notifyEnabled, wakeTouch, nvars, chargerVars, chargerFrame>>

NextCharger == LoopTop \/ LoopTouch \/ ChargerRest \/ ChargerPlug

InitCharger == Init /\ ~g_isCharging

SpecCharger == InitCharger /\ [][NextCharger]_vars

\* ------------------------------------------------------------------ claims
\* C1: while a recording is in progress the power state is Active, however
\* long the idle time has grown: no powerUpdate call dims the display or
\* enters light or deep sleep before the recording has ended.
C1_RecordingKeepsActive ==
    g_recordingInProgress =>
        /\ g_powerState = "ACTIVE" /\ display = "active"
        /\ ~g_dimmed /\ ~g_sleeping
        /\ pc # "halt"

\* C1 happens: powerUpdate has just run with a recording in progress and an
\* idle time beyond the light sleep timeout.
C1_Witness ==
    /\ g_recordingInProgress /\ pc = "touch"
    /\ idleMs >= TIMEOUT_LIGHT_SLEEP_MS

\* A step of powerUpdate: the main loop goes from the top of loop() on to
\* the touch handler (or halts in deep sleep).
PowerUpdateStep == pc = "top" /\ pc' # "top"

\* C2 as the program has it: with no recording in progress, a powerUpdate
\* call in Active dims exactly when the idle time has reached TIMEOUT_DIM_MS
\* and stays Active otherwise; a call in Dimmed enters light sleep exactly
\* when the idle time has reached TIMEOUT_LIGHT_SLEEP_MS and the charger is
\* not connected, and stays Dimmed otherwise; and no step of the program
\* enters light sleep from any state but Dimmed.
C2_DimThenLightSleepUnlessCharging ==
    [][/\ (PowerUpdateStep /\ ~g_recordingInProgress /\ g_powerState = "ACTIVE")
            => g_powerState' = IF idleMs >= TIMEOUT_DIM_MS
                               THEN "DIMMED" ELSE "ACTIVE"
       /\ (PowerUpdateStep /\ ~g_recordingInProgress /\ g_powerState = "DIMMED")
            => g_powerState' = IF idleMs >= TIMEOUT_LIGHT_SLEEP_MS /\ ~g_isCharging
                               THEN "LIGHT_SLEEP" ELSE "DIMMED"
       /\ (g_powerState # "LIGHT_SLEEP" /\ g_powerState' = "LIGHT_SLEEP")
            => g_powerState = "DIMMED"]_vars

\* C2 happens: powerUpdate has just entered light sleep.
C2_Witness ==
    /\ pc = "touch" /\ g_powerState = "LIGHT_SLEEP"
    /\ Logged("[POWER] -> LIGHT_SLEEP")

\* C2 as stated: a powerUpdate call in Dimmed with no recording enters light
\* sleep once the idle time has reached TIMEOUT_LIGHT_SLEEP_MS.
C2_AsStated ==
    [][(PowerUpdateStep /\ ~g_recordingInProgress /\ g_powerState = "DIMMED"
        /\ idleMs >= TIMEOUT_LIGHT_SLEEP_MS)
            => g_powerState' = "LIGHT_SLEEP"]_vars

\* C3: a call of powerMarkActivity in Dimmed leaves the state Active, with
\* the display active and the idle timer restarted; a call in Active leaves
\* the state Active with the idle timer restarted.
C3_ActivityReturnsToActive ==
    LET s == powerMarkActivity(Cur)
    IN  /\ g_powerState = "DIMMED" =>
              /\ s.g_powerState = "ACTIVE" /\ s.display = "active"
              /\ ~s.g_dimmed /\ ~s.g_sleeping /\ ~s.g_wokeFromSleep
              /\ Sub32(millis, s.s_lastActivityMs) = 0
        /\ g_powerState = "ACTIVE" =>
              /\ s.g_powerState = "ACTIVE"
              /\ Sub32(millis, s.s_lastActivityMs) = 0

\* C3 happens: the last step called powerMarkActivity in Dimmed, after an
\* idle time of at least TIMEOUT_DIM_MS, and the state is Active.
C3_Witness ==
    /\ Logged("[POWER] -> ACTIVE (user activity)")
    /\ g_powerState = "ACTIVE" /\ idleMs = 0

\* C4: an iteration of loop() that starts with the wake flag set runs the
\* wake sequence (power state Active, display active, application state
\* IDLE, flag cleared) and nothing else: the next step of the main loop is
\* the top of the next iteration.
C4_WakeIterationOnlyWakes ==
    [][(pc = "top" /\ g_wokeFromSleep /\ (pc' # pc \/ ran' # ran)) =>
          /\ ran' = <<"handleWakeFromLightSleep">> /\ pc' = "top"
          /\ g_powerState' = "ACTIVE" /\ display' = "active"
          /\ ~g_sleeping' /\ ~g_dimmed'
          /\ currentState' = "IDLE" /\ ~g_wokeFromSleep']_vars

\* C4 happens: the iteration that just ended ran the wake sequence.
C4_Witness ==
    /\ pc = "top" /\ ran = <<"handleWakeFromLightSleep">>
    /\ Logged("[POWER] WAKE") /\ g_powerState = "ACTIVE"

\* C5: the touch that woke the watch from light sleep is consumed: no call
\* of handleTouch that samples that touch, up to and including the one that
\* finds it released, starts or stops a recording or changes the
\* application state.
C5_WakeTouchConsumed ==
    [][(pc = "touch" /\ pc' # "touch" /\ wakeTouch /\ ~g_sleeping) =>
          /\ pc' # "startRecording"
          /\ g_recordingInProgress' = g_recordingInProgress
          /\ currentState' = currentState]_vars

\* C6: a disconnect while a recording is in progress leaves no recording in
\* progress, the recording-active flag false, the I2S capture stopped and
\* the application state IDLE.
C6_DisconnectTearsDownRecording ==
    [][(g_bleConnected /\ ~g_bleConnected' /\ g_recordingInProgress) =>
          /\ ~g_recordingInProgress' /\ ~g_is_recording' /\ ~s_i2sRunning'
          /\ g_recordingStartMs' = 0
          /\ currentState' = "IDLE"]_vars

\* C6 happens: the last step was a disconnect that stopped a running
\* capture.
C6_Witness ==
    /\ Logged("[BLE] disconnected, restarting advertising")
    /\ Logged("[MIC] Stopped")
    /\ ~g_bleConnected /\ ~g_recordingInProgress

\* C7: at every boundary between two iterations of loop(), a recording in
\* progress implies a connected peer.
C7_RecordingImpliesConnected ==
    (pc = "top" /\ g_recordingInProgress) => g_bleConnected

\* C7, for sessions whose capture started: at every boundary between two
\* iterations of loop(), a recording in progress with the I2S capture
\* running implies a connected peer.
C7_CapturingImpliesConnected ==
    (pc = "top" /\ g_recordingInProgress /\ s_i2sRunning) => g_bleConnected

\* The rest of loop() runs: checkWaitingTimeout, updateRecording, the UI
\* section and the pacing delay.
LoopRestStep == pc = "rest" /\ pc' = "top"

\* C8: when more than RECORDING_MAX_DURATION_MS have passed since the
\* recording started, the next updateRecording call stops it: afterwards no
\* recording is in progress and the application state is WAITING_ANSWER if
\* control messages can be sent, IDLE otherwise.
C8_MaxDurationStops ==
    [][(LoopRestStep /\ g_recordingInProgress
        /\ Sub32(millis, g_recordingStartMs) > RECORDING_MAX_DURATION_MS) =>
          /\ ~g_recordingInProgress'
          /\ currentState' = IF g_bleConnected /\ notifyEnabled
                             THEN "WAITING_ANSWER" ELSE "IDLE"]_vars

\* C8, for sessions whose capture started: the same, when the I2S capture
\* is running.
C8_MaxDurationStopsCapture ==
    [][(LoopRestStep /\ g_recordingInProgress /\ s_i2sRunning
        /\ Sub32(millis, g_recordingStartMs) > RECORDING_MAX_DURATION_MS) =>
          /\ ~g_recordingInProgress' /\ ~s_i2sRunning' /\ ~g_is_recording'
          /\ currentState' = IF g_bleConnected /\ notifyEnabled
                             THEN "WAITING_ANSWER" ELSE "IDLE"]_vars

\* C9: no recording is in progress for longer than
\* RECORDING_MAX_DURATION_MS plus one iteration of loop() (at most TickMs).
C9_RecordingEndsByItself ==
    g_recordingInProgress =>
        Sub32(millis, g_recordingStartMs) <= RECORDING_MAX_DURATION_MS + TickMs

\* C9, for sessions whose capture started.
C9_CaptureEndsByItself ==
    (g_recordingInProgress /\ s_i2sRunning) =>
        Sub32(millis, g_recordingStartMs) <= RECORDING_MAX_DURATION_MS + TickMs

\* startMic returned without the capture running
MicFailed ==
    \/ Logged("[MIC] ERROR: Failed to init")
    \/ Logged("[MIC] ERROR: i2s_set_pin failed")
    \/ Logged("[MIC] ERROR: i2s_start failed")

\* C10: when startMic returns without the capture running, startRecording
\* refuses the session: no recording is in progress, the application state
\* is not RECORDING and no START_V was sent.
C10_MicFailureRefusesSession ==
    MicFailed =>
        /\ ~g_recordingInProgress /\ currentState # "RECORDING"
        /\ ~Logged("START_V")

\* The touch handler has just called startRecording.
StartRecordingCalled ==
    /\ pc = "touch" /\ pc' # "touch"
    /\ Len(ran') > 0 /\ ran'[Len(ran')] = "startRecording"

\* C11: a call of startRecording made while the peer is not connected or
\* has not enabled notifications changes nothing: the application state,
\* the recording flags and timers, the idle timer, the microphone state and
\* the connection profile are as they were, nothing is sent to the peer
\* (no START_V) or to the radio, and the body of startRecording is not run.
C11_GatedStartChangesNothing ==
    [][(StartRecordingCalled /\ ~(g_bleConnected /\ notifyEnabled)) =>
          /\ pc' = "rest"
          /\ currentState' = currentState
          /\ g_recordingInProgress' = g_recordingInProgress
          /\ g_is_recording' = g_is_recording
          /\ g_recordingStartMs' = g_recordingStartMs
          /\ g_waitingStartMs' = g_waitingStartMs
          /\ s_lastActivityMs' = s_lastActivityMs
          /\ g_powerState' = g_powerState
          /\ s_i2sInstalled' = s_i2sInstalled /\ s_i2sRunning' = s_i2sRunning
          /\ s_micPinsConfigured' = s_micPinsConfigured
          /\ s_recordingStartMs' = s_recordingStartMs
          /\ g_activeTransfer' = g_activeTransfer
          /\ out' = <<>>]_vars

\* C11 happens: a tap in IDLE has called startRecording while the gate was
\* closed, and the call returned at the gate.
C11_Witness ==
    /\ pc = "rest" /\ Len(ran) > 0 /\ ran[Len(ran)] = "startRecording"
    /\ ~(g_bleConnected /\ notifyEnabled)
    /\ currentState = "IDLE" /\ ~g_recordingInProgress

\* C12: when a request for a profile reaches the radio, a request for the
\* other profile issued on the same connection less than
\* BLE_PARAM_UPDATE_MIN_INTERVAL_MS later is dropped: nothing is sent, the
\* tracked profile stays that of the first request and no state records the
\* dropped request; and a request for the tracked profile is never sent.
C12_SecondRequestDropped ==
    \A activeTransfer \in BOOLEAN :
        LET first == requestConnectionParams(Cur, activeTransfer)
        IN  /\ activeTransfer = g_activeTransfer => first = Cur
            /\ first.out # <<>> =>
                  /\ first.g_activeTransfer = activeTransfer
                  /\ \A d \in {0, FineMs, BLE_PARAM_UPDATE_MIN_INTERVAL_MS - 1} :
                        LET later == [Elapse(first, d) EXCEPT !.out = <<>>]
                        IN  requestConnectionParams(later, ~activeTransfer) = later

\* C12 happens: the capture has just started less than
\* BLE_PARAM_UPDATE_MIN_INTERVAL_MS after a request for the Normal profile
\* reached the radio, and its request for ActiveTransfer was dropped.
C12_Witness ==
    /\ Logged("[MIC] Started - recording active") /\ g_bleConnected
    /\ ~g_activeTransfer /\ ~Logged("radio:params ACTIVE")
    /\ s_lastParamUpdateMs > 0
    /\ Sub32(millis, s_lastParamUpdateMs) < BLE_PARAM_UPDATE_MIN_INTERVAL_MS

\* C13: with the peer connected before and after, a step in which startMic
\* starts the I2S capture leaves the tracked connection profile
\* ActiveTransfer, and a step in which stopMic stops the capture leaves it
\* Normal.
C13_ProfileFollowsCapture ==
    [][(g_bleConnected /\ g_bleConnected') =>
          /\ (~s_i2sRunning /\ s_i2sRunning') => g_activeTransfer'
          /\ (s_i2sRunning /\ ~s_i2sRunning') => ~g_activeTransfer']_vars

\* The connection parameter update requests that reached the radio in o.
ParamRequests(o) ==
    {i \in DOMAIN o : o[i] \in {"radio:params ACTIVE", "radio:params NORMAL",
                                 "radio:params SLEEP"}}

\* C14: a step of the program sends the radio at most one connection
\* parameter update request, and none less than
\* BLE_PARAM_UPDATE_MIN_INTERVAL_MS after the previous request on the same
\* connection, whichever function sent either of them.
C14_RequestsThrottledGlobally ==
    [][ParamRequests(out') # {} =>
          /\ Cardinality(ParamRequests(out')) = 1
          /\ \/ radioParamMs = 0
             \/ Sub32(millis, radioParamMs) >= BLE_PARAM_UPDATE_MIN_INTERVAL_MS]_vars

\* C15: at every boundary between two iterations of loop() the BLE sleep
\* mode flag (bleIsInSleepMode) is set if and only if the power state is
\* LightSleep.
C15_BleSleepIffLightSleep ==
    pc = "top" => (s_bleSleepMode <=> g_powerState = "LIGHT_SLEEP")

\* C15 happens: an iteration ends in LightSleep, entered with no peer
\* connected, with the link in sleep mode and the slow advertising
\* intervals set.
C15_Witness ==
    /\ pc = "top" /\ g_powerState = "LIGHT_SLEEP" /\ s_bleSleepMode
    /\ ~g_bleConnected /\ advInterval = "SLEEP"

\* C16: whenever the device advertises at the Sleep intervals, the power
\* state is LightSleep and no peer is connected.
C16_SleepAdvertisingOnlyInLightSleep ==
    (advertising /\ advInterval = "SLEEP") =>
        (g_powerState = "LIGHT_SLEEP" /\ ~g_bleConnected)

\* C17: when BLE_FAST_ADV_DURATION_MS have passed since the fast
\* advertising burst started at boot and no peer is connected, the next
\* ensureAdvertisingAlive call ends the burst: after it the burst flag is
\* clear and the advertising intervals are not the fast ones.
C17_FastBurstEnds ==
    [][(LoopRestStep /\ ~g_bleConnected
        /\ Sub32(millis, s_fastAdvStartMs) >= BLE_FAST_ADV_DURATION_MS) =>
          (~s_fastAdvActive' /\ advInterval' # "FAST")]_vars

\* C17, while the firmware still counts the burst as active: the call
\* clears the burst flag and sets the Normal intervals.
C17_ActiveBurstEnds ==
    [][(LoopRestStep /\ ~g_bleConnected /\ s_fastAdvActive
        /\ Sub32(millis, s_fastAdvStartMs) >= BLE_FAST_ADV_DURATION_MS) =>
          (~s_fastAdvActive' /\ advInterval' = "NORMAL")]_vars

\* C18: a call of bleSendNotifyWithRetry makes at most MAX_NOTIFY_RETRIES
\* notify attempts.  After an attempt that finds the connection live it
\* returns success at once, with the success timestamp set to the clock
\* and the error counter untouched; after an attempt that finds the
\* connection dropped it goes on without counting an error, unless this
\* was attempt MAX_NOTIFY_RETRIES: then it adds exactly one to the error
\* counter and returns failure.
C18_NotifyWithRetry ==
    /\ [](attempts <= MAX_NOTIFY_RETRIES)
    /\ [][/\ (notifyPc = "check" /\ notifyPc' # "check") =>
               IF g_bleConnected
               THEN /\ notifyResult' = "true" /\ notifyPc' = "idle"
                    /\ s_lastSuccessfulNotifyMs' = millis
                    /\ s_notifyErrors' = s_notifyErrors
               ELSE IF attempts = MAX_NOTIFY_RETRIES
               THEN /\ notifyResult' = "false" /\ notifyPc' = "idle"
                    /\ s_notifyErrors' = s_notifyErrors + 1
               ELSE /\ notifyResult' = "none" /\ notifyPc' = "delay"
                    /\ s_notifyErrors' = s_notifyErrors
          /\ (notifyPc \in {"notify", "delay"} /\ notifyPc' # notifyPc) =>
               /\ notifyResult' = "none" /\ notifyPc' \in {"notify", "check"}
               /\ s_notifyErrors' = s_notifyErrors]_vars

\* C18 happens: a call has returned failure after MAX_NOTIFY_RETRIES
\* attempts that all found the connection dropped, with one error counted.
C18_Witness ==
    /\ notifyPc = "idle" /\ notifyResult = "false"
    /\ attempts = MAX_NOTIFY_RETRIES /\ s_notifyErrors = 1

\* The place of the event e in the sequence o.
Pos(o, e) == CHOOSE i \in DOMAIN o : o[i] = e

\* C19: whatever state powerForceDeepSleep is called in, it stops a running
\* capture and uninstalls the I2S driver, then shuts the Bluetooth stack
\* down, then configures the wake pins, then isolates the unused pins, and
\* the request of deep sleep is the last thing it does; and no step of the
\* program follows the request.
C19_DeepSleepSequence ==
    /\ [](LET s == powerForceDeepSleep(Cur)
              o == s.out
          IN  /\ ~s.s_i2sRunning /\ ~s.s_i2sInstalled /\ ~s.advertising
              /\ s_i2sRunning =>
                    /\ Emitted(s, "[MIC] Stopped")
                    /\ Pos(o, "[MIC] Stopped") < Pos(o, "bt:deinit")
              /\ Emitted(s, "bt:deinit") /\ Emitted(s, "wake pins configured")
              /\ Emitted(s, "unused pins isolated")
              /\ Emitted(s, "esp_deep_sleep_start")
              /\ Pos(o, "bt:deinit") < Pos(o, "wake pins configured")
              /\ Pos(o, "wake pins configured") < Pos(o, "unused pins isolated")
              /\ Pos(o, "unused pins isolated") < Pos(o, "esp_deep_sleep_start")
              /\ Pos(o, "esp_deep_sleep_start") = Len(o))
    /\ [][pc # "halt"]_vars

\* C19 happens: powerForceDeepSleep has run and the process has stopped.
C19_Witness ==
    /\ pc = "halt" /\ Logged("esp_deep_sleep_start") /\ Logged("bt:deinit")
    /\ ~advertising /\ ~s_i2sInstalled

\* C20: the process enters deep sleep only in a powerUpdate call made in
\* LightSleep, with no recording in progress, at least
\* TIMEOUT_DEEP_SLEEP_MS after LightSleep was entered; and after that no
\* step changes the state.
C20_DeepSleepOnlyFromLightSleep ==
    [][/\ (pc # "halt" /\ pc' = "halt") =>
            /\ pc = "top" /\ g_powerState = "LIGHT_SLEEP"
            /\ ~g_recordingInProgress
            /\ s_lightSleepEnteredMs # 0
            /\ Sub32(millis, s_lightSleepEnteredMs) >= TIMEOUT_DEEP_SLEEP_MS
       /\ pc = "halt" => UNCHANGED vars]_vars

\* C20 happens: powerUpdate has entered deep sleep from LightSleep after
\* the timeout.
C20_Witness ==
    /\ pc = "halt" /\ Logged("[POWER] -> DEEP_SLEEP (5min timeout)")
    /\ g_powerState = "LIGHT_SLEEP"
    /\ Sub32(millis, s_lightSleepEnteredMs) >= TIMEOUT_DEEP_SLEEP_MS

\* C21: a wake from deep sleep is validated before the rest of the boot: when
\* the touch wake line reads "no touch" once the latched interrupt is cleared
\* and a scan cycle has passed, setup() initialises neither the display, nor
\* BLE, nor the microphone, and never reaches loop().
C21_SpuriousWakeSkipsBoot ==
    (wakeReason = "EXT0" /\ ~wakeLine) =>
        /\ display = "off" /\ ~advertising /\ ~s_i2sInstalled
        /\ bootPc # "loop"

\* C22: the critical-battery check runs periodically, in the powerUpdate
\* calls made more than BATTERY_CHECK_MS after the last check and in no
\* other, whatever the power state and also while recording; a check that
\* reads a voltage below SHUTDOWN_THRESHOLD_MV while not charging requests
\* the power-off, and the power-off is requested in no other case.
C22_CriticalBatteryCheck ==
    [][PowerUpdateStep =>
          LET due == Sub32(millis, lastBatteryCheck) > BATTERY_CHECK_MS
              ranCheck == \E i \in DOMAIN ran' : ran'[i] = "checkBatteryHealth"
          IN  /\ ranCheck <=> due
              /\ (due /\ g_pmuPresent) => battVoltage' \in Voltages
              /\ pmuShutdown' <=>
                    (due /\ g_pmuPresent /\ ~g_isCharging
                     /\ battVoltage' < SHUTDOWN_THRESHOLD_MV)]_vars

\* the check ran in light sleep, read a critical voltage while not charging
\* and requested the power-off
C22_Witness ==
    /\ pmuShutdown /\ g_powerState = "LIGHT_SLEEP" /\ ~g_isCharging
    /\ battVoltage = SHUTDOWN_THRESHOLD_MV - 1
    /\ ran = <<"powerUpdate", "checkBatteryHealth">>

\* C23: from LightSleep the power state changes only to Active (the wake, or
\* a recording in progress); the deep-sleep timeout halts the processor in
\* LightSleep.  No step moves it from LightSleep to Dimmed.
C23_LightSleepNeverToDimmed ==
    [][g_powerState = "LIGHT_SLEEP" =>
          g_powerState' \in {"LIGHT_SLEEP", "ACTIVE"}]_vars

\* the wake sequence has taken the watch from LightSleep to Active
C23_Witness ==
    /\ ran = <<"handleWakeFromLightSleep">> /\ pc = "top"
    /\ g_powerState = "ACTIVE" /\ display = "active" /\ ~g_wokeFromSleep

\* processPendingText runs on a complete message that does not start with
\* "TIME:"
TextHandedStep ==
    /\ pc = "rest" /\ pc' = "top"
    /\ g_textPending /\ millis >= g_pendingReadyAtMs /\ g_pendingValue = "TEXT"

\* C24: a complete non-TIME text message sets the application state to
\* ANSWER in whatever power state it is processed, and when it is processed
\* in LightSleep the application state is ANSWER once the wake it asked for
\* has completed.
C24_TextDrivesAnswer ==
    [][/\ TextHandedStep => currentState' = "ANSWER"
       /\ (pc = "top" /\ g_wokeFromSleep /\ wokeByText /\ ~g_wokeFromSleep')
              => currentState' = "ANSWER"]_vars

\* C24, in the power states other than LightSleep and up to the wake: the
\* message sets the application state to ANSWER and marks activity.
C24_TextSetsAnswer ==
    [][TextHandedStep =>
          /\ currentState' = "ANSWER" /\ g_lastText' = "TEXT"
          /\ IF g_powerState = "LIGHT_SLEEP"
             THEN g_wokeFromSleep' /\ g_powerState' = "LIGHT_SLEEP"
             ELSE g_powerState' = "ACTIVE"]_vars

RECURSIVE Flatten(_)
\* the fragments of a sequence of messages, in order
Flatten(messages) ==
    IF messages = <<>> THEN <<>>
    ELSE Head(messages) \o Flatten(Tail(messages))

\* C25, the fragments: the messages handed to processPendingText followed
\* by the pending buffer are the fragments written, each once and in the
\* order of the writes, in every interleaving of the write callback with
\* popPendingText.
C25_FragmentsKept == Flatten(handed) \o qValue = written

\* C25: the fragments are neither lost, duplicated nor reordered, and a
\* message is handed to processPendingText only when at least
\* TEXT_CHUNK_TIMEOUT_MS have passed since its last fragment was written.
C25_FragmentsKeptAndQuiet ==
    /\ [](Flatten(handed) \o qValue = written)
    /\ [][handed' # handed => sinceWrite >= TEXT_CHUNK_TIMEOUT_MS]_vars

\* The peer writes payload in a session: a value that is not empty and
\* starts neither with "BEGIN:" nor is "ABORT", which the flash takes.
OtaPayloadStep ==
    /\ g_otaActive /\ otaIn'.len > 0 /\ otaIn'.prefix = "other" /\ otaIn'.writeOk

\* the last status message the step notified
OtaLastStatus == IF otaSent' = <<>> THEN "" ELSE otaSent'[Len(otaSent')]

\* The write of a "BEGIN:<size>" with a size above 0 that Update.begin
\* accepts, with no session active, starts the session with ACK:BEGIN.
OtaBeginAccepted ==
    (~g_otaActive /\ otaIn'.len > 0 /\ otaIn'.prefix = "BEGIN:"
     /\ otaIn'.size > 0 /\ otaIn'.beginOk) =>
        /\ g_otaActive' /\ otaSent' = <<"ACK:BEGIN">>
        /\ g_expectedSize' = otaIn'.size /\ g_receivedSize' = 0

\* C26: after an accepted BEGIN (ACK:BEGIN), the payload write that brings
\* the bytes received to exactly the declared size sends OTA_OK, ends the
\* session and schedules the restart OTA_RESTART_DELAY_MS later.
C26_CompletePayloadFinalizes ==
    [][/\ OtaBeginAccepted
       /\ (OtaPayloadStep /\ g_receivedSize + otaIn'.len = g_expectedSize) =>
             /\ OtaLastStatus = "OTA_OK" /\ ~g_otaActive'
             /\ g_restartPending'
             /\ g_restartAtMs' = millis + OTA_RESTART_DELAY_MS]_vars

\* C26 as the program has it: the same, when Update.end(true) accepts the
\* image (its size and, when the BEGIN message gave one, its MD5); when it
\* does not, the status is ERR:END, the session ends and no restart is
\* scheduled.
C26_VerifiedPayloadFinalizes ==
    [][/\ OtaBeginAccepted
       /\ (OtaPayloadStep /\ g_receivedSize + otaIn'.len = g_expectedSize) =>
             IF otaIn'.endOk
             THEN /\ OtaLastStatus = "OTA_OK" /\ ~g_otaActive'
                  /\ g_restartPending'
                  /\ g_restartAtMs' = millis + OTA_RESTART_DELAY_MS
             ELSE /\ OtaLastStatus = "ERR:END" /\ ~g_otaActive'
                  /\ ~g_restartPending']_vars

\* the last payload write completed the image: OTA_OK, restart scheduled
C26_Witness ==
    /\ otaIn.prefix = "other" /\ otaIn.len > 0 /\ otaIn.endOk
    /\ otaSent # <<>> /\ otaSent[Len(otaSent)] = "OTA_OK"
    /\ ~g_otaActive /\ g_restartPending
    /\ g_restartAtMs = millis + OTA_RESTART_DELAY_MS

\* C27: once the restart is scheduled it stays scheduled, whatever is
\* written and whether the peer stays connected, until otaLoop restarts the
\* processor.
C27_RestartStaysScheduled ==
    [][(g_restartPending /\ ~restarted) => g_restartPending']_vars

\* the status messages of resetOtaState
OtaResetStatuses ==
    {"ERR:ABORT", "ERR:END", "ERR:WRITE", "ERR:SIZE_MISMATCH", "ERR:TIMEOUT"}

\* C27, what the program does: a scheduled restart is cancelled by the write
\* of "ABORT", by the end of the connection and by the failure of a session
\* begun after it (resetOtaState), and by nothing else; while it is
\* scheduled, the otaLoop calls made once the delay has elapsed, and no
\* other step, restart the processor.
C27_RestartUnlessCancelled ==
    [][(g_restartPending /\ ~restarted) =>
          IF \/ OtaLastStatus \in OtaResetStatuses
             \/ g_bleConnected /\ ~g_bleConnected'
          THEN ~g_restartPending' /\ ~restarted'
          ELSE /\ g_restartPending'
               /\ restarted' <=> (ran' = <<"otaLoop">> /\ millis >= g_restartAtMs)]_vars

\* C28: while a session is active, every written value that is not "ABORT",
\* also one that starts with "BEGIN:", is payload: its length is added to
\* the bytes received, and the session goes on below the declared size and
\* ends at it.
C28_EveryWriteIsPayload ==
    [][(g_otaActive /\ otaIn'.len > 0 /\ otaIn'.prefix # "ABORT"
        /\ otaIn'.writeOk) =>
          IF g_receivedSize + otaIn'.len < g_expectedSize
          THEN g_otaActive' /\ g_receivedSize' = g_receivedSize + otaIn'.len
          ELSE ~g_otaActive']_vars

\* C28 as the program has it: a value that starts with "BEGIN:" is answered
\* ERR:BUSY and leaves the session as it is; every other value that is not
\* "ABORT" is payload: below the declared size the session goes on with its
\* length counted, at the declared size finalizeOta runs, above it the
\* session ends with ERR:SIZE_MISMATCH.
C28_PayloadWritesCounted ==
    [][/\ OtaPayloadStep =>
             IF g_receivedSize + otaIn'.len < g_expectedSize
             THEN /\ g_otaActive' /\ g_expectedSize' = g_expectedSize
                  /\ g_receivedSize' = g_receivedSize + otaIn'.len
             ELSE IF g_receivedSize + otaIn'.len = g_expectedSize
             THEN ~g_otaActive' /\ OtaLastStatus \in {"OTA_OK", "ERR:END"}
             ELSE ~g_otaActive' /\ OtaLastStatus = "ERR:SIZE_MISMATCH"
       /\ (g_otaActive /\ otaIn'.len > 0 /\ otaIn'.prefix = "BEGIN:") =>
             /\ otaSent' = <<"ERR:BUSY">>
             /\ UNCHANGED <<g_otaActive, g_expectedSize, g_receivedSize,
                            g_lastChunkMs>>]_vars

\* a payload write was counted and the session goes on
C28_Witness ==
    /\ otaIn.prefix = "other" /\ otaIn.len > 0 /\ otaIn.writeOk
    /\ g_otaActive /\ g_receivedSize = otaIn.len /\ g_receivedSize < g_expectedSize

ImaBefore(i) ==
    ima_encode_samples([pred |-> ima_pred, index |-> ima_index, codes |-> <<>>],
                       pcm', i - 1)

ImaDelta(i) ==
    LET e == ImaBefore(i)
        step == ima_step_table[e.index + 1]
    IN  ima_delta(ima_code(pcm'[i] - e.pred, step), step)

\* C30: for every sample encoded, the new predictor is the previous
\* predictor plus the reconstructed delta, saturated to -32768..32767: it
\* never wraps around modulo 2^16.
C30_PredictorSaturates ==
    [][encoded' > encoded =>
          /\ ima_pred' = ImaBefore(Len(pcm') + 1).pred
          /\ \A i \in 1..Len(pcm') :
                ImaBefore(i + 1).pred
                    = Saturate16(ImaBefore(i).pred + ImaDelta(i))]_vars

\* C31: ima_encode_block on n samples writes (n + 1) \div 2 bytes; byte k
\* holds the code of sample 2k in its low nibble and the code of sample
\* 2k+1 in its high nibble (counting from 0); for odd n the high nibble of
\* the last byte is zero; nothing of an earlier call is in the bytes.
C31_NibblesPacked ==
    [][encoded' > encoded =>
          LET n == Len(pcm')
              codes == ImaBefore(n + 1).codes
          IN  /\ encoded' = encoded + n
              /\ Len(codes) = n
              /\ Len(adpcmOut') = (n + 1) \div 2
              /\ \A k \in 1..Len(adpcmOut') :
                    /\ adpcmOut'[k] % 16 = codes[2 * k - 1]
                    /\ adpcmOut'[k] \div 16
                          = IF 2 * k <= n THEN codes[2 * k] ELSE 0]_vars

\* C31 happens: a block of three samples has been encoded into two bytes,
\* the first with two different codes above zero, after an earlier block of
\* odd length.
C31_Witness ==
    /\ Len(pcm) = 3 /\ Len(adpcmOut) = 2 /\ encoded > 3
    /\ adpcmOut[1] % 16 # adpcmOut[1] \div 16
    /\ adpcmOut[1] % 16 > 0 /\ adpcmOut[1] \div 16 > 0
    /\ adpcmOut[2] > 0 /\ adpcmOut[2] < 16

\* An updateRecording call of a session that is active, with the peer
\* connected, whose read gives DMA_BUF_LEN samples.
PumpFullRead ==
    /\ Len(ran') = 2 /\ ran'[1] = "updateRecording"
    /\ ~ran'[2].err /\ ran'[2].bytes = 2 * DMA_BUF_LEN
    /\ s_i2sRunning /\ g_is_recording /\ g_bleConnected

Waiting == currentState \in {"WAITING_ANSWER", "WAITING_TIME"}

waitedMs == Sub32(millis, g_waitingStartMs)

\* C33: in every power state, the first checkWaitingTimeout call made
\* WAITING_ANSWER_TIMEOUT_MS or longer after the wait began returns the
\* application to IDLE.  Every iteration of the main loop makes that call or
\* ends the wait itself (the wake handler), the wait's clock is running from
\* its first moment and is never restarted, and the device does not halt in
\* deep sleep while it waits: a wait lasts no longer than the timeout and one
\* iteration.
C33_WaitingTimesOut ==
    [][/\ (LoopRestStep /\ Waiting /\ waitedMs >= WAITING_ANSWER_TIMEOUT_MS)
            => currentState' = "IDLE" /\ g_waitingStartMs' = 0
       /\ (pc = "top" /\ pc' = "top" /\ g_wokeFromSleep /\ ~g_wokeFromSleep')
            => currentState' = "IDLE"
       /\ Waiting' =>
            /\ g_waitingStartMs' # 0
            /\ pc' # "halt"
            /\ Waiting => Sub32(millis, g_waitingStartMs') >= waitedMs]_vars

\* C33 happens: the rest of loop() has ended a wait in Dimmed, where the
\* timeout's activity mark turns the display back on, and the pacing delay
\* has passed since.  (The mark is not the charger's, which was unplugged
\* in this iteration, nor that of a recording stopped, which would wait.)
C33_Witness ==
    /\ pc = "top" /\ currentState = "IDLE" /\ g_waitingStartMs = 0
    /\ Logged("[POWER] -> ACTIVE (user activity)") /\ idleMs > 0
    /\ g_bleConnected /\ notifyEnabled /\ ~g_isCharging

\* C34: the powerUpdate call of a loop iteration in which a recording is in
\* progress leaves the CPU lock held, so that automatic light sleep cannot
\* occur during the recording, and the first call after the recording has
\* ended releases it.
C34_RecordingHoldsCpuLock ==
    [][/\ (PowerUpdateStep /\ g_recordingInProgress /\ s_cpuLock) => s_cpuLockHeld'
       /\ (PowerUpdateStep /\ ~g_recordingInProgress) => ~s_cpuLockHeld']_vars

\* C34, what the program does: the lock is taken only by a powerUpdate call
\* that finds a recording in progress in a power state other than Active,
\* and startRecording has made the state Active before any such call, so no
\* step leaves the lock held.
C34_CpuLockNeverHeld == ~s_cpuLockHeld

\* C35: the end of the connection leaves the power state, the idle timer
\* and the wake flag as they are (and with them the display and the light
\* sleep timer), also when it ends a recording: a watch in LightSleep or
\* Dimmed stays there.
C35_DisconnectKeepsPowerState ==
    [][(g_bleConnected /\ ~g_bleConnected') =>
          UNCHANGED <<g_powerState, s_lastActivityMs, g_wokeFromSleep,
                      s_lightSleepEnteredMs, display, g_sleeping, g_dimmed>>]_vars

\* C35 happens: the connection has just ended in light sleep, and the watch
\* sleeps on.
C35_Witness ==
    /\ Logged("[BLE] disconnected, restarting advertising")
    /\ ~g_bleConnected /\ g_powerState = "LIGHT_SLEEP" /\ ~g_wokeFromSleep
    /\ display = "off" /\ idleMs >= TIMEOUT_LIGHT_SLEEP_MS

\* C36: every connect event sends the radio a connection parameter update
\* request for the Normal profile.
C36_ConnectRequestsNormal ==
    [][(~g_bleConnected /\ g_bleConnected') =>
          \E i \in DOMAIN out' : out'[i] = "radio:params NORMAL"]_vars

\* C36, what the program does: g_activeTransfer is false at every connect,
\* which requestConnectionParams(false) takes for the Normal profile being
\* in force already: no connect event sends the radio a request.
C36_ConnectRequestsNothing ==
    [][(~g_bleConnected /\ g_bleConnected') =>
          /\ ~g_activeTransfer /\ ~g_activeTransfer'
          /\ \A i \in DOMAIN out' :
                out'[i] \notin {"radio:params NORMAL", "radio:params ACTIVE",
                                "radio:params SLEEP"}]_vars

\* C37: an activity mark is never lost when powerMarkActivity runs in the
\* BLE task while powerUpdate runs in the main loop.  After the mark the
\* state is Active or a wake is pending; the device enters LightSleep
\* only after a full idle timeout since the last mark, and enters
\* DeepSleep only with no wake pending and as long after the last mark.
C37_MarkNeverLost ==
    [][/\ (s_lastActivityMs' = millis /\ s_lastActivityMs # millis)
            => g_powerState' = "ACTIVE" \/ g_wokeFromSleep'
       /\ (g_powerState # "LIGHT_SLEEP" /\ g_powerState' = "LIGHT_SLEEP")
            => idleMs >= TIMEOUT_LIGHT_SLEEP_MS
       /\ (pc # "halt" /\ pc' = "halt")
            => ~g_wokeFromSleep /\ idleMs >= TIMEOUT_LIGHT_SLEEP_MS]_vars

\* C38: on a live connection that is not in sleep mode, g_activeTransfer
\* is true only while the last request sent to the radio was the
\* ActiveTransfer profile.  The last request changes only in a step that
\* sends one: the step that sets g_activeTransfer sends the ActiveTransfer
\* profile, and a step that leaves it set outside the sleep mode sends, as
\* its last request, no other profile.
C38_ActiveTransferIsLastRequest ==
    [][(g_bleConnected' /\ g_activeTransfer' /\ ~s_bleSleepMode') =>
          /\ ~g_activeTransfer => ParamRequests(out') # {}
          /\ \A i \in ParamRequests(out') :
                (\A j \in ParamRequests(out') : j <= i)
                    => out'[i] = "radio:params ACTIVE"]_vars

\* C39: only an external event wakes the device from LightSleep.  A wake
\* is requested only by the touch handler or by a peer connecting, never
\* by the rest of the loop, in which the firmware's own timers run; and
\* the power state leaves LIGHT_SLEEP only for ACTIVE, through the wake
\* handler.
C39_WakeOnlyByExternalEvent ==
    [][/\ (~g_wokeFromSleep /\ g_wokeFromSleep')
            => pc = "touch" \/ (~g_bleConnected /\ g_bleConnected')
       /\ (g_powerState = "LIGHT_SLEEP" /\ g_powerState' # "LIGHT_SLEEP")
            => g_wokeFromSleep /\ g_powerState' = "ACTIVE"]_vars

\* C40: the device never enters DeepSleep while external power is
\* attached: a charger plugged in during LightSleep is noticed, and the
\* device returns to Dimmed.
C40_NoDeepSleepOnExternalPower ==
    [][(pc # "halt" /\ pc' = "halt") => ~vbusAttached]_vars

\* In LightSleep the charging flag does not follow the charger: no step
\* taken in LightSleep changes g_isCharging.
C40_ChargerUnnoticedInLightSleep ==
    [][g_powerState = "LIGHT_SLEEP" => g_isCharging' = g_isCharging]_vars

====
